---- MODULE Spec2Model ----
(***************************************************************************)
(* Verification model of FIRC-LLM-Extractor.                               *)
(*                                                                         *)
(*   Spec      : the watermark poller and dispatcher of runner.py (main,   *)
(*               list_new_messages, load_state/save_state, call_handler)   *)
(*               with rules.categorize as the classifier.                  *)
(*   StoreSpec : the tabular store and the merges the two handlers make    *)
(*               into it (disposal_handler.upsert_selected / handle,       *)
(*               firc_handler.upsert_by_inward / handle).                  *)
(*   MergeSpec : upsert_selected and upsert_by_inward applied to any       *)
(*               update, as functions.                                     *)
(*   RetrySpec : the retry loop of call_openai_financials and              *)
(*               call_openai_firc.                                         *)
(*   DecryptSpec : the password candidates and the decryption of one PDF   *)
(*               (firc_handler.gather_candidate_passwords,                 *)
(*               try_decrypt_pdf, handle) and what they log.               *)
(*   ClassifySpec : rules.categorize on the text of a message.             *)
(***************************************************************************)
EXTENDS Integers, Sequences, FiniteSets, TLC

----------------------------------------------------------------------------
(* Bounds of the model *)

\* number of messages that ever reach the inbox
MaxMsgs == 2
\* largest internalDate (model milliseconds); the first run starts at StartTs
MaxTs == 3
\* number of faults (a crash/restart or a poll-cycle exception) in a behaviour
MaxFaults == 1
\* model stand-in for the 5000 of save_state's [-5000:] slice
KeepIds == 1
\* model stand-in for the 1000 of "last_ts_ms // 1000"
MsPerSec == 2
\* number of handler runs a StoreSpec behaviour makes
MaxMerges == 2
\* number of upserts a MergeSpec behaviour makes
MaxUpserts == 2
\* scale of the lengths of the texts handed to an extraction call
MaxChars == 4

----------------------------------------------------------------------------
(* State *)

VARIABLES
    \* ---- environment
    inbox,            \* the messages the mail service holds
    stop_after_match, \* the "stop_after_match" flag of each rule of rules.py
    \* ---- runner.py main(): locals and the state file
    pc,               \* position in main()'s loop
    last_ts,          \* main.last_ts, the in-memory watermark
    processed,        \* main.processed, the in-memory id set
    persisted,        \* contents of state.json
    messages,         \* main.messages, the batch of the current cycle
    i,                \* position of "for msg in messages" (1-based)
    matches,          \* main.matches of the current message
    j,                \* position of "for m in matches" (1-based)
    poll_ts,          \* the last_ts_ms argument of the last list_new_messages
    \* ---- history of the run (what the logs would show)
    order,            \* ids ever added to processed, in the order of their last add
    calls,            \* rules whose handler was invoked for the message last begun
    handled,          \* the message whose handling began last in this run, <<m>> or <<>>
    failed,           \* a handler invocation for that message raised
    batch_done,       \* messages added to processed in the current cycle
    cycle_error,      \* the current cycle ended in "except Exception"
    resumed,          \* the process restarted and has not polled yet
    resume_pending,   \* the unprocessed rest of the batch a crash cut short
    crashes,          \* crash/restarts so far
    errors,           \* poll-cycle exceptions so far
    \* ---- the tabular store remittance.xlsx
    store,            \* the table: its columns and its rows
    merges,           \* number of merges made
    last,             \* the last merge: what ran, on which table, with which input
    \* ---- call_openai_financials / call_openai_firc: one extraction call
    x_pc,             \* position in the retry loop
    x_handler,        \* which of the two functions runs
    txt_len,          \* len(trimmed) / len(txt), the text before shrinking
    attempt,          \* the loop variable of "for attempt in range(attempts)"
    service_calls,    \* chars sent by each chat.completions.create so far
    sleeps,           \* seconds of each time.sleep so far
    outcomes,         \* how each service call ended
    \* ---- firc_handler.handle, lines 403-435 and 510-522: one PDF's decryption
    d_pc,             \* position in handle / try_decrypt_pdf
    d_in,             \* the rule match, the password sources and the document
    cands,            \* handle.cands
    d_k,              \* position of "for pw in candidates" (1-based)
    tries,            \* the decrypt attempts made so far, in order
    dec,              \* what try_decrypt_pdf returned: [path, used]
    logged,           \* the log lines written
    \* ---- rules.py categorize: one classification
    c_in,             \* the EmailContext classified, and a respelling of it
    c_out,            \* the matches categorize returned for each
    \* ---- disposal_handler.extract_financial_window: one pre-filtering
    w_in,             \* the text and max_chars
    w_out             \* the text returned

runner_vars == <<inbox, stop_after_match, pc, last_ts, processed, persisted,
                 messages, i, matches, j, poll_ts, order, calls,
                 handled, failed, batch_done, cycle_error, resumed, resume_pending,
                 crashes, errors>>

store_vars == <<store, merges, last>>

extract_vars == <<x_pc, x_handler, txt_len, attempt, service_calls, sleeps, outcomes>>

decrypt_vars == <<d_pc, d_in, cands, d_k, tries, dec, logged>>

classify_vars == <<c_in, c_out>>

window_vars == <<w_in, w_out>>

handler_vars == <<store_vars, extract_vars, decrypt_vars, classify_vars, window_vars>>

vars == <<runner_vars, handler_vars>>

----------------------------------------------------------------------------
(* Helpers *)

MaxOf(S) == CHOOSE x \in S : \A y \in S : y <= x

Range(s) == {s[k] : k \in 1..Len(s)}

\* every ordering of a finite set, as sequences without repetition
Orderings(S) ==
    {s \in [1..Cardinality(S) -> S] : \A a, b \in 1..Cardinality(S) : a # b => s[a] # s[b]}

RemoveId(s, id) == SelectSeq(s, LAMBDA x : x # id)

----------------------------------------------------------------------------
(* rules.py *)

Rules == 1..3

\* handler_module of each rule's match
handler_module(r) == IF r = 1 THEN "handlers.disposal_handler" ELSE "handlers.firc_handler"

\* The text predicates of a rule are abstracted by the set m.sat of rules whose
\* predicate holds on the message. categorize appends one match per satisfied
\* rule, in declaration order.
RECURSIVE categorize_from(_, _)
categorize_from(sat, r) ==
    IF r > 3 THEN <<>>
    ELSE (IF r \in sat THEN <<r>> ELSE <<>>) \o categorize_from(sat, r + 1)

categorize(m) == categorize_from(m.sat, 1)

\* the rule sets the modelled messages satisfy
MsgKinds == {{}, {1, 2, 3}}

\* rules.py as shipped stops after every match; the runner reads the flag per
\* match (and reloads rules.py every cycle), so an edited table is an input too
StopConfigs == {[r \in Rules |-> TRUE], [r \in Rules |-> r # 1]}

----------------------------------------------------------------------------
(* runner.py: list_new_messages *)

after_seconds(last_ts_ms) == MaxOf({0, last_ts_ms \div MsPerSec})

\* what the mail service lists for 'in:inbox after:<after_seconds>'
upstream(inb, last_ts_ms) ==
    {m \in inb : m.internalDate \div MsPerSec >= after_seconds(last_ts_ms)}

\* the pages of stubs, in the service's order; a message may show up on two pages
Listings(S) ==
    Orderings(S) \cup {Append(s, s[k]) : s \in Orderings(S), k \in 1..Cardinality(S)}

fresh_unfiltered(msgs, last_ts_ms) == msgs

fresh(msgs, last_ts_ms) == SelectSeq(msgs, LAMBDA m : m.internalDate > last_ts_ms)

\* list.sort(key=internalDate): stable, ascending
RECURSIVE insert_sorted(_, _)
insert_sorted(s, m) ==
    IF s = <<>> THEN <<m>>
    ELSE IF s[Len(s)].internalDate <= m.internalDate THEN Append(s, m)
    ELSE Append(insert_sorted(SubSeq(s, 1, Len(s) - 1), m), s[Len(s)])

RECURSIVE sort_by_internalDate(_)
sort_by_internalDate(s) ==
    IF s = <<>> THEN <<>>
    ELSE insert_sorted(sort_by_internalDate(SubSeq(s, 1, Len(s) - 1)), s[Len(s)])

list_new_messages(msgs, last_ts_ms) == sort_by_internalDate(fresh(msgs, last_ts_ms))

----------------------------------------------------------------------------
(* runner.py: load_state / save_state *)

\* list(processed)[-5000:]: a set has no defined order, so the slice keeps some
\* KeepIds of the ids
truncations(ids) ==
    IF Cardinality(ids) <= KeepIds THEN {ids}
    ELSE {S \in SUBSET ids : Cardinality(S) = KeepIds}

\* the wall-clock time of the save (no internalDate exceeds it) as the watermark
save_state_wall_clock(ts, ids) ==
    {[last_internal_ts |-> MaxTs, processed_ids |-> S] : S \in truncations(ids)}

save_state(ts, ids) == {[last_internal_ts |-> ts, processed_ids |-> S] : S \in truncations(ids)}

----------------------------------------------------------------------------
(* runner.py: main *)

cur == messages[i]

InBatch == pc \in {"for", "dispatch", "mark"}

\* the messages of the current batch not yet added to processed
Unprocessed ==
    {messages[k] : k \in {n \in 1..Len(messages) : n >= i /\ messages[n].id \notin processed}}

\* NOW of the first run, int(time.time() * 1000)
StartTs == 1

\* load_state without a state file
load_state_default == [last_internal_ts |-> 0, processed_ids |-> {}]

first_run_keeps_zero(state) == state

\* lines 152-155: "if last_ts == 0": the watermark becomes NOW and is saved
first_run(state) ==
    IF state.last_internal_ts = 0 THEN [state EXCEPT !.last_internal_ts = StartTs]
    ELSE state

\* main() up to the loop, on a first run: the watermark is NOW and is saved
Init ==
    /\ inbox = {}
    /\ stop_after_match \in StopConfigs
    /\ pc = "poll"
    /\ last_ts = first_run(load_state_default).last_internal_ts
    /\ processed = load_state_default.processed_ids
    /\ persisted = first_run(load_state_default)
    /\ messages = <<>>
    /\ i = 1
    /\ matches = <<>>
    /\ j = 1
    /\ poll_ts = first_run(load_state_default).last_internal_ts
    /\ order = <<>>
    /\ calls = <<>>
    /\ handled = <<>>
    /\ failed = FALSE
    /\ batch_done = {}
    /\ cycle_error = FALSE
    /\ resumed = FALSE
    /\ resume_pending = {}
    /\ crashes = 0
    /\ errors = 0
    /\ store = [cols |-> {}, rows |-> <<>>]
    /\ merges = 0
    /\ last = [op |-> "none"]
    /\ x_pc = "idle"
    /\ x_handler = "disposal"
    /\ txt_len = 0
    /\ attempt = 0
    /\ service_calls = <<>>
    /\ sleeps = <<>>
    /\ outcomes = <<>>
    /\ d_pc = "idle"
    /\ d_in = [op |-> "none"]
    /\ cands = <<>>
    /\ d_k = 1
    /\ tries = <<>>
    /\ dec = [path |-> "", used |-> ""]
    /\ logged = <<>>
    /\ c_in = [op |-> "none"]
    /\ c_out = [op |-> "none"]
    /\ w_in = [op |-> "none"]
    /\ w_out = <<>>

\* a message appears in the inbox, with any internalDate (late deliveries
\* included). The runner reads the inbox only when it polls, so arrivals are
\* taken just before.
Arrive ==
    /\ pc = "poll"
    /\ Cardinality(inbox) < MaxMsgs
    /\ \E ts \in 1..MaxTs, k \in MsgKinds :
         inbox' = inbox \cup {[id |-> Cardinality(inbox) + 1, internalDate |-> ts, sat |-> k]}
    /\ UNCHANGED <<stop_after_match, pc, last_ts, processed, persisted, messages,
                   i, matches, j, poll_ts, order, calls, handled, failed,
                   batch_done, cycle_error, resumed, resume_pending, crashes, errors>>
    /\ UNCHANGED handler_vars

\* lines 163-168: messages = list_new_messages(gmail, last_ts)
Poll ==
    /\ pc = "poll"
    /\ \E msgs \in Listings(upstream(inbox, last_ts)) :
         messages' = list_new_messages(msgs, last_ts)
    /\ poll_ts' = last_ts
    /\ i' = 1
    /\ batch_done' = {}
    /\ cycle_error' = FALSE
    /\ resumed' = FALSE
    /\ resume_pending' = {}
    /\ pc' = "for"
    /\ UNCHANGED <<inbox, stop_after_match, last_ts, processed, persisted, matches, j,
                   order, calls, handled, failed, crashes, errors>>
    /\ UNCHANGED handler_vars

\* lines 168, 228-230: the listing raises; the cycle's except clause logs it
PollError ==
    /\ pc = "poll"
    /\ crashes + errors < MaxFaults
    /\ errors' = errors + 1
    /\ messages' = <<>>
    /\ poll_ts' = last_ts
    /\ i' = 1
    /\ batch_done' = {}
    /\ cycle_error' = TRUE
    /\ resumed' = FALSE
    /\ resume_pending' = {}
    /\ pc' = "sleep"
    /\ UNCHANGED <<inbox, stop_after_match, last_ts, processed, persisted, matches, j,
                   order, calls, handled, failed, crashes>>
    /\ UNCHANGED handler_vars

\* "if mid in processed: continue"
skip_never(mid) == FALSE

skip(mid) == mid \in processed

\* where the loop goes once the message is classified: "if not matches: ... else: for m in matches"
after_categorize_drop(ms) == IF ms = <<>> THEN "for" ELSE "dispatch"

after_categorize(ms) == IF ms = <<>> THEN "mark" ELSE "dispatch"

\* lines 170-201: next message of the batch; skip a processed id, else classify
BeginMessage ==
    /\ pc = "for"
    /\ i <= Len(messages)
    /\ IF skip(cur.id)
       THEN /\ i' = i + 1
            /\ UNCHANGED <<pc, matches, j, calls, handled, failed>>
       ELSE /\ matches' = categorize(cur)
            /\ j' = 1
            /\ calls' = <<>>
            /\ handled' = <<cur>>
            /\ failed' = FALSE
            /\ pc' = after_categorize(categorize(cur))
            /\ i' = IF after_categorize(categorize(cur)) = "for" THEN i + 1 ELSE i
    /\ UNCHANGED <<inbox, stop_after_match, last_ts, processed, persisted, messages,
                   poll_ts, order, batch_done, cycle_error, resumed,
                   resume_pending, crashes, errors>>
    /\ UNCHANGED handler_vars

\* lines 171-190, 228-230: reading the message raises (headers, body decode, log)
MessageError ==
    /\ pc = "for"
    /\ i <= Len(messages)
    /\ ~skip(cur.id)
    /\ crashes + errors < MaxFaults
    /\ errors' = errors + 1
    /\ cycle_error' = TRUE
    /\ pc' = "sleep"
    /\ UNCHANGED <<inbox, stop_after_match, last_ts, processed, persisted, messages,
                   i, matches, j, poll_ts, order, calls, handled, failed,
                   batch_done, resumed, resume_pending, crashes>>
    /\ UNCHANGED handler_vars

\* call_handler without its try/except: the exception reaches the cycle's except
after_call_uncaught(outcome) ==
    IF outcome = "raised" THEN "sleep"
    ELSE IF stop_after_match[matches[j]] \/ j = Len(matches) THEN "mark" ELSE "dispatch"

\* the dispatch loop without its break
after_call_no_break(outcome) ==
    IF j = Len(matches) THEN "mark" ELSE "dispatch"

\* where the loop goes after call_handler returned for matches[j]: call_handler
\* swallows the exception; "if m.get('stop_after_match', True): break"
after_call(outcome) ==
    IF stop_after_match[matches[j]] \/ j = Len(matches) THEN "mark" ELSE "dispatch"

\* lines 203-216 and call_handler (134-141): one match is dispatched
Dispatch ==
    /\ pc = "dispatch"
    /\ j <= Len(matches)
    /\ \E outcome \in {"returned", "raised"} :
         /\ calls' = Append(calls, matches[j])
         /\ failed' = (failed \/ outcome = "raised")
         /\ pc' = after_call(outcome)
         /\ cycle_error' = (after_call(outcome) = "sleep")
    /\ j' = j + 1
    /\ UNCHANGED <<inbox, stop_after_match, last_ts, processed, persisted, messages,
                   i, matches, poll_ts, order, handled, batch_done,
                   resumed, resume_pending, crashes, errors>>
    /\ UNCHANGED handler_vars

\* the watermark jumps to the newest message of the batch
advance_to_newest(ts, its) == messages[Len(messages)].internalDate

\* "if its > last_ts: last_ts = its"
advance(ts, its) == IF its > ts THEN its ELSE ts

\* lines 218-221: processed.add(mid); move the watermark
Mark ==
    /\ pc = "mark"
    /\ processed' = processed \cup {cur.id}
    /\ last_ts' = advance(last_ts, cur.internalDate)
    /\ order' = Append(RemoveId(order, cur.id), cur.id)
    /\ batch_done' = batch_done \cup {cur}
    /\ i' = i + 1
    /\ pc' = "for"
    /\ UNCHANGED <<inbox, stop_after_match, persisted, messages, matches, j, poll_ts,
                   calls, handled, failed, cycle_error, resumed, resume_pending,
                   crashes, errors>>
    /\ UNCHANGED handler_vars

should_save_never(msgs) == FALSE

\* "if messages:"
should_save(msgs) == msgs # <<>>

\* lines 223-226: the batch is over; a non-empty batch saves the state
EndBatch ==
    /\ pc = "for"
    /\ i > Len(messages)
    /\ IF should_save(messages)
       THEN persisted' \in save_state(last_ts, processed)
       ELSE UNCHANGED persisted
    /\ pc' = "sleep"
    /\ UNCHANGED <<inbox, stop_after_match, last_ts, processed, messages, i, matches,
                   j, poll_ts, order, calls, handled, failed, batch_done,
                   cycle_error, resumed, resume_pending, crashes, errors>>
    /\ UNCHANGED handler_vars

\* lines 226, 228-230: writing state.json raises
SaveError ==
    /\ pc = "for"
    /\ i > Len(messages)
    /\ messages # <<>>
    /\ crashes + errors < MaxFaults
    /\ errors' = errors + 1
    /\ cycle_error' = TRUE
    /\ pc' = "sleep"
    /\ UNCHANGED <<inbox, stop_after_match, last_ts, processed, persisted, messages,
                   i, matches, j, poll_ts, order, calls, handled, failed,
                   batch_done, resumed, resume_pending, crashes>>
    /\ UNCHANGED handler_vars

\* line 232: time.sleep(10), then the next cycle. The locals
\* of the finished cycle are dead (each is assigned again before it is read), so
\* they are cleared here.
Sleep ==
    /\ pc = "sleep"
    /\ pc' = "poll"
    /\ messages' = <<>>
    /\ i' = 1
    /\ matches' = <<>>
    /\ j' = 1
    /\ poll_ts' = last_ts
    /\ calls' = <<>>
    /\ handled' = <<>>
    /\ failed' = FALSE
    /\ batch_done' = {}
    /\ cycle_error' = FALSE
    /\ UNCHANGED <<inbox, stop_after_match, last_ts, processed, persisted, order,
                   resumed, resume_pending, crashes, errors>>
    /\ UNCHANGED handler_vars

\* the process dies anywhere and main() starts again: lines 147-149 load state.json
\* (last_internal_ts is never 0 there, so line 152 does not fire again)
CrashRestart ==
    /\ crashes + errors < MaxFaults
    /\ crashes' = crashes + 1
    /\ last_ts' = first_run(persisted).last_internal_ts
    /\ processed' = persisted.processed_ids
    /\ resume_pending' = IF InBatch THEN Unprocessed ELSE {}
    /\ resumed' = TRUE
    /\ messages' = <<>>
    /\ i' = 1
    /\ matches' = <<>>
    /\ j' = 1
    /\ poll_ts' = first_run(persisted).last_internal_ts
    /\ calls' = <<>>
    /\ handled' = <<>>
    /\ failed' = FALSE
    /\ batch_done' = {}
    /\ cycle_error' = FALSE
    /\ pc' = "poll"
    /\ UNCHANGED <<inbox, stop_after_match, persisted, order, errors>>
    /\ UNCHANGED handler_vars

Next ==
    \/ Arrive
    \/ Poll
    \/ PollError
    \/ BeginMessage
    \/ MessageError
    \/ Dispatch
    \/ Mark
    \/ EndBatch
    \/ SaveError
    \/ Sleep
    \/ CrashRestart

Spec == Init /\ [][Next]_vars

----------------------------------------------------------------------------
(* Properties of the poller and dispatcher, checked under Spec *)

Handled == handled[1]

\* the last KeepIds ids of the processing order
MostRecent == Range(SubSeq(order, Len(order) - KeepIds + 1, Len(order)))

\* C1: list_new_messages(w) returns only messages whose internalDate is
\* strictly greater than w, in ascending internalDate order, whatever the
\* mail service listed.
C1_PollStrictlyAfterAscending ==
    /\ \A k \in 1..Len(messages) : messages[k].internalDate > poll_ts
    /\ \A a, b \in 1..Len(messages) :
         a < b => messages[a].internalDate <= messages[b].internalDate

\* a poll returned a message while the service also listed one that is not
\* after the watermark
C1_Witness ==
    /\ pc = "for"
    /\ messages # <<>>
    /\ \E m \in upstream(inbox, poll_ts) : m.internalDate <= poll_ts

\* C2 as stated: a message that was ever handled and marked processed is never
\* dispatched to a handler again, crash/restart included.
C2_NeverDispatchedAgain ==
    \A id \in Range(order) : ~(pc = "dispatch" /\ cur.id = id)

\* C2 amended: a message that is in the run's processed set, or whose
\* internalDate is at or below the saved watermark, is never dispatched.
C2_NoRedispatchOnceSaved ==
    \A m \in inbox :
        (m.id \in processed \/ m.internalDate <= persisted.last_internal_ts)
            => ~(pc = "dispatch" /\ cur.id = m.id)

\* after a restart a poll listed a message handled and saved before the crash,
\* and did not return it
C2_Witness ==
    /\ crashes > 0
    /\ pc = "for"
    /\ \E m \in upstream(inbox, poll_ts) :
         /\ m.id \in Range(order)
         /\ m.internalDate <= persisted.last_internal_ts
         /\ \A k \in 1..Len(messages) : messages[k].id # m.id

\* C4: the watermark never decreases (in a run of the process, and in
\* state.json at all), and it equals the maximum of its value at the poll and
\* the internalDate of every message processed in the batch.
C4_WatermarkMonotoneMax ==
    /\ [](last_ts = MaxOf({poll_ts} \cup {m.internalDate : m \in batch_done}))
    /\ [][/\ persisted'.last_internal_ts >= persisted.last_internal_ts
          /\ crashes' = crashes => last_ts' >= last_ts
          /\ crashes' # crashes => last_ts' = persisted.last_internal_ts]_vars

\* a batch of two messages was processed and saved, and moved the watermark
C4_Witness ==
    /\ pc = "sleep"
    /\ ~cycle_error
    /\ Cardinality(batch_done) = 2
    /\ last_ts > poll_ts
    /\ persisted.last_internal_ts = last_ts

\* C5: after a poll cycle ended in a caught exception, every message of that
\* cycle not yet marked processed is still strictly after the watermark, so
\* the next poll returns it.
C5_NoMessageLostOnCycleError ==
    (pc = "sleep" /\ cycle_error) =>
        \A m \in Unprocessed : m.internalDate > last_ts

\* C6: at every point of a batch the saved watermark is strictly below the
\* internalDate of every message of the batch not yet processed, and their ids
\* are not saved as processed; after a crash there and a restart, the loaded
\* watermark is strictly below them.
C6_CrashMidBatchSkipsNothing ==
    /\ InBatch =>
         \A m \in Unprocessed :
            /\ m.internalDate > persisted.last_internal_ts
            /\ m.id \notin persisted.processed_ids
    /\ resumed =>
         \A m \in resume_pending : m.internalDate > last_ts /\ m.id \notin processed

\* the process restarted after a crash that cut a batch short, one message of
\* the batch processed and one not
C6_Witness ==
    /\ resumed
    /\ resume_pending # {}
    /\ order # <<>>

\* C7: state.json never holds more than KeepIds ids, and after a save of more
\* than KeepIds processed ids it holds the KeepIds most recently processed.
C7_PersistedMostRecent ==
    /\ Cardinality(persisted.processed_ids) <= KeepIds
    /\ (pc = "sleep" /\ ~cycle_error /\ messages # <<>> /\ Len(order) > KeepIds)
         => persisted.processed_ids = MostRecent

\* C8: when a handler invocation raised, the loop goes on (next match or the
\* mark step), and once the message is left it is in processed and the
\* watermark is at or after its internalDate.
C8_HandlerFailureContained ==
    failed =>
        /\ handled # <<>>
        /\ IF pc \in {"dispatch", "mark"}
           THEN cur = Handled
           ELSE /\ Handled.id \in processed
                /\ Handled.internalDate <= last_ts

\* a handler raised, its message was marked processed and the batch goes on
\* with another message
C8_Witness ==
    /\ failed
    /\ pc = "for"
    /\ i <= Len(messages)
    /\ Handled.id \in processed
    /\ Handled.internalDate <= last_ts

\* C9: the handlers invoked for a message are a prefix of the classifier's
\* match list, in its order; none is invoked after a match with
\* stop_after_match, and the dispatch ends only at such a match or at the end
\* of the list.
C9_DispatchOrderAndStop ==
    /\ handled # <<>> => matches = categorize(Handled)
    /\ Len(calls) <= Len(matches)
    /\ calls = SubSeq(matches, 1, Len(calls))
    /\ \A k \in 1..(Len(calls) - 1) : ~stop_after_match[calls[k]]
    /\ (pc = "mark" /\ matches # <<>>) =>
         /\ calls # <<>>
         /\ (calls = matches \/ stop_after_match[calls[Len(calls)]])

\* three matches, the first without stop_after_match and the second with it:
\* two handlers ran, in order, and the third match was not dispatched
C9_Witness ==
    /\ pc = "mark"
    /\ matches = <<1, 2, 3>>
    /\ calls = <<1, 2>>

\* C10: a message that matches no rule has no handler invoked and is marked
\* processed, the watermark moving to its internalDate.
C10_NoMatchStillProcessed ==
    (handled # <<>> /\ categorize(Handled) = <<>>) =>
        /\ calls = <<>>
        /\ \/ pc = "mark" /\ cur = Handled
           \/ Handled.id \in processed /\ Handled.internalDate <= last_ts

\* a message without a match was handled and marked processed
C10_Witness ==
    /\ handled # <<>>
    /\ categorize(Handled) = <<>>
    /\ calls = <<>>
    /\ pc = "for"
    /\ Handled.id \in processed
    /\ last_ts = Handled.internalDate
    /\ last_ts > poll_ts

----------------------------------------------------------------------------
(* The tabular store: handler/disposal_handler.py and handler/firc_handler.py *)
(* Under Spec a handler invocation is its outcome (returned or raised); what   *)
(* the handlers write to remittance.xlsx is modelled here, under StoreSpec.    *)

\* a cell pandas left unset (a column the row was not given); str() of it is "nan"
NaN == "<NaN>"

str(x) == IF x = NaN THEN "nan" ELSE x

\* dict.get(k, "")
Get(d, k) == IF k \in DOMAIN d THEN d[k] ELSE ""

MinOf(S) == CHOOSE x \in S : \A y \in S : x <= y


\* ensure_cols: "if c not in df.columns: df[c] = ''"
ensure_cols(df, cols) ==
    [cols |-> df.cols \cup cols,
     rows |-> [n \in 1..Len(df.rows) |->
                 [c \in df.cols \cup cols |->
                    IF c \in df.cols THEN df.rows[n][c] ELSE ""]]]

\* pd.concat([df, pd.DataFrame([row])], ignore_index=True)
concat(df, row) ==
    LET cs == df.cols \cup DOMAIN row IN
    [cols |-> cs,
     rows |-> Append([n \in 1..Len(df.rows) |->
                        [c \in cs |-> IF c \in df.cols THEN df.rows[n][c] ELSE NaN]],
                     [c \in cs |-> IF c \in DOMAIN row THEN row[c] ELSE NaN])]

\* "for k, v in updates.items(): old = str(df.at[idx, k]); if old != v: df.at[idx, k] = v"
update_row_every_match(df, idx, updates) ==
    [df EXCEPT !.rows =
        [n \in 1..Len(df.rows) |->
            IF \E k \in DOMAIN updates : updates[k] # "" /\ str(df.rows[n][k]) = updates[k]
            THEN [c \in df.cols |-> IF c \in DOMAIN updates THEN updates[c] ELSE df.rows[n][c]]
            ELSE df.rows[n]]]

update_row(df, idx, updates) ==
    [df EXCEPT !.rows[idx] =
        [c \in df.cols |->
            IF c \in DOMAIN updates /\ str(@[c]) # updates[c] THEN updates[c] ELSE @[c]]]

\* the rows whose key column holds pk: df[pk_col].astype(str) == pk
mask_none(df, pk_col, pk) == {}

mask(df, pk_col, pk) == {n \in 1..Len(df.rows) : str(df.rows[n][pk_col]) = pk}

\* "safe_updates = {k: ... for k, v in updates.items() if k in allowed_cols}"
safe_all(updates, allowed_cols) == updates

safe(updates, allowed_cols) == [k \in DOMAIN updates \cap allowed_cols |-> updates[k]]

\* "if not pk:" the update carries no key value
is_unkeyed_never(pk) == FALSE

is_unkeyed(pk) == pk = ""

\* disposal_handler.upsert_selected
upsert_selected(df, pk_col, updates, allowed_cols) ==
    LET safe_updates == safe(updates, allowed_cols)
        df1 == ensure_cols(df, allowed_cols \cup {pk_col})
        pk == Get(safe_updates, pk_col)
    IN  IF is_unkeyed(pk) THEN concat(df1, safe_updates)
        ELSE IF mask(df1, pk_col, pk) # {}
             THEN update_row(df1, MinOf(mask(df1, pk_col, pk)), safe_updates)
             ELSE concat(df1, safe_updates)

\* firc_handler.upsert_by_inward
upsert_by_inward(df, updates) ==
    LET df1 == ensure_cols(df, DOMAIN updates \cup {"InwardPK"})
        inward_pk == Get(updates, "InwardPK")
    IN  IF is_unkeyed(inward_pk) THEN concat(df1, updates)
        ELSE IF mask(df1, "InwardPK", inward_pk) # {}
             THEN update_row(df1, MinOf(mask(df1, "InwardPK", inward_pk)), updates)
             ELSE concat(df1, updates)

\* write_df then read_df: unset cells come back as "" (dtype=str, fillna(""))
write_read(df) ==
    [cols |-> df.cols,
     rows |-> [n \in 1..Len(df.rows) |->
                 [c \in df.cols |-> IF df.rows[n][c] = NaN THEN "" ELSE df.rows[n][c]]]]

\* FINANCIAL_CANON, cut to the fields the properties tell apart
FINANCIAL_CANON == {"RemitterReference", "InwardReference", "AmountFCY"}

\* FIRC_CANON, cut the same way
FIRC_CANON == {"InwardReference", "FIRCNumber", "AmountFCY"}

\* the columns the attachment handler means to write: its fields, its key,
\* SavedPDFs and the email meta (firc_handler.handle, lines 486-504)
FIRC_WRITES == FIRC_CANON \cup {"InwardPK", "SavedPDFs", "EMAIL_Type"}

\* the d[k] of the keys whose value is neither None nor ""
non_empty(d, keys) == [k \in {x \in keys \cap DOMAIN d : d[x] # ""} |-> d[k]]

\* disposal_handler.handle, lines 245-249
ALLOWED_TO_UPDATE == FINANCIAL_CANON \cup {"RemitterPK", "InwardPK", "EMAIL_Type"}

\* disposal_handler.handle, lines 220-243: the update built from the extraction
disposal_updates(result) ==
    LET fields == IF result.IsRelevant THEN result.FinancialFields ELSE <<>> IN
    non_empty(fields, FINANCIAL_CANON)
        @@ [RemitterPK |-> Get(fields, "RemitterReference"),
            InwardPK |-> Get(fields, "InwardReference"),
            EMAIL_Type |-> "DisposalEmail"]

\* "pk_col = 'RemitterPK' if remitter_ref else 'InwardPK'"
disposal_pk_col_inward_first(result) ==
    IF disposal_updates(result).InwardPK # "" THEN "InwardPK" ELSE "RemitterPK"

disposal_pk_col(result) ==
    IF disposal_updates(result).RemitterPK # "" THEN "RemitterPK" ELSE "InwardPK"

\* disposal_handler.handle, lines 252-254
disposal_merge(df, result) ==
    write_read(upsert_selected(df, disposal_pk_col(result), disposal_updates(result),
                               ALLOWED_TO_UPDATE))

\* tempfile.mkstemp(suffix=".pdf"): the n-th name it hands out
TempName(n) == "tmp" \o ToString(n) \o ".pdf"

\* the names a SavedPDFs cell can list, in sorted() order
FileNames ==
    <<"a.pdf", "b.pdf", "nan">> \o [n \in 1..MaxMerges |-> TempName(n)]

\* ", ".join(sorted(S))
RECURSIVE join_from(_, _)
join_from(S, n) ==
    IF n > Len(FileNames) THEN ""
    ELSE IF FileNames[n] \notin S THEN join_from(S, n + 1)
    ELSE IF \E k \in (n + 1)..Len(FileNames) : FileNames[k] \in S
         THEN FileNames[n] \o ", " \o join_from(S, n + 1)
         ELSE FileNames[n]

join(S) == join_from(S, 1)

\* every SavedPDFs text with the names it lists
JoinTable == [S \in SUBSET Range(FileNames) |-> join(S)]

\* set(p.strip() for p in s.split(",") if p.strip())
split(s) == CHOOSE S \in DOMAIN JoinTable : JoinTable[S] = s

\* the names recorded in the SavedPDFs cells of the frame
recorded(df) ==
    IF "SavedPDFs" \in df.cols
    THEN UNION {split(str(df.rows[n]["SavedPDFs"])) : n \in 1..Len(df.rows)}
    ELSE {}

\* try_decrypt_pdf, lines 199 and 214: a name no file has yet
mkstemp(df) ==
    TempName(1 + Cardinality({n \in 1..MaxMerges : TempName(n) \in recorded(df)}))

\* lines 409-433: the path the handler goes on with; the decrypted copy of an
\* encrypted PDF is a temporary file
local_path(df, pdf) == IF pdf.text = "decrypted" THEN mkstemp(df) ELSE pdf.filename

\* firc_handler.handle, lines 493-494: the row's SavedPDFs with this file added
saved_pdfs(df, inward_ref, filename) ==
    LET hits == IF "InwardPK" \in df.cols
                THEN {n \in 1..Len(df.rows) : df.rows[n]["InwardPK"] = inward_ref}
                ELSE {}
        prev == IF hits # {} /\ "SavedPDFs" \in df.cols
                THEN str(df.rows[MinOf(hits)]["SavedPDFs"])
                ELSE ""
    IN  join(split(prev) \cup {filename})

\* lines 437-455: the extraction runs only on a PDF that gave text
extracts(pdf) == pdf.text # "none"

\* call_openai_firc raised (a non-retriable error, or every retry rate-limited)
raises(pdf) == extracts(pdf) /\ pdf.extract = "raised"

\* result.get("Confidence", 0.0)
confidence(result) == IF "Confidence" \in DOMAIN result THEN result.Confidence ELSE "0.0"

\* float(conf or 0.0) returns: the score is a number, or text that reads as one
is_float(conf) == conf \in {"0.0", "0.1", "0.9"}

\* firc_handler.handle, lines 451-465, for one PDF: the document is merged only
\* when the extraction is relevant and names an InwardReference
firc_inward_ref_any(pdf) == "I1"

firc_inward_ref(pdf) ==
    IF extracts(pdf) /\ pdf.IsRelevant THEN Get(pdf.Fields, "InwardReference") ELSE ""

\* lines 486-504
firc_updates(df, pdf) ==
    non_empty(pdf.Fields, DOMAIN pdf.Fields)
        @@ [InwardPK |-> firc_inward_ref(pdf),
            SavedPDFs |-> saved_pdfs(df, firc_inward_ref(pdf), local_path(df, pdf)),
            EMAIL_Type |-> "FIRC"]

firc_merge_one(df, pdf) ==
    IF firc_inward_ref(pdf) = "" THEN df ELSE upsert_by_inward(df, firc_updates(df, pdf))

\* line 512, reached for a merged PDF: round(float(conf or 0.0), 3) raises
summary_raises(pdf) == firc_inward_ref(pdf) # "" /\ ~is_float(confidence(pdf))

\* "for a in pdfs: ..." over the in-memory frame; every PDF gone through is
\* uploaded when the archive is set up (lines 467-482); a raising extraction,
\* or a raising summary line after the merge in memory, leaves the loop for
\* the handler's except clause
RECURSIVE firc_merge_all(_, _, _, _)
firc_merge_all(df, pdfs, archived, drive) ==
    IF pdfs = <<>> THEN [df |-> df, archived |-> archived, raised |-> FALSE]
    ELSE IF raises(Head(pdfs)) THEN [df |-> df, archived |-> archived, raised |-> TRUE]
    ELSE IF summary_raises(Head(pdfs))
         THEN [df |-> firc_merge_one(df, Head(pdfs)),
               archived |-> IF drive THEN Append(archived, Head(pdfs).filename) ELSE archived,
               raised |-> TRUE]
    ELSE firc_merge_all(firc_merge_one(df, Head(pdfs)), Tail(pdfs),
                        IF drive THEN Append(archived, Head(pdfs).filename) ELSE archived,
                        drive)

\* the table that the handler's except clause leaves: nothing of the frame is
\* written
after_raise(df, frame) == df

\* lines 400-526: "df = read_df()" ... "if updated_any: write_df(df)"
firc_merge(df, pdfs, drive) ==
    LET run == firc_merge_all(df, pdfs, <<>>, drive) IN
    IF run.raised THEN after_raise(df, run.df)
    ELSE IF \E n \in 1..Len(pdfs) : firc_inward_ref(pdfs[n]) # ""
         THEN write_read(run.df)
         ELSE df

\* what the extraction service may answer for an email body
RemitterRefs == {"", "R1", "R2"}

InwardRefs == {"", "I1", "I2"}

DisposalResults ==
    {[IsRelevant |-> TRUE,
      FinancialFields |-> [RemitterReference |-> r, InwardReference |-> w, AmountFCY |-> "100"]]
        : r \in RemitterRefs, w \in InwardRefs}
    \cup {[IsRelevant |-> FALSE,
           FinancialFields |-> [RemitterReference |-> "R1", InwardReference |-> "I1",
                                AmountFCY |-> "100"]]}
    \cup {[IsRelevant |-> TRUE, Confidence |-> c,
           FinancialFields |-> [RemitterReference |-> "R1", InwardReference |-> "I1",
                                AmountFCY |-> "100"]] : c \in {"0.1", "high"}}

\* a PDF of the message: whether it gave text (as it is, after decryption, or
\* not at all), how the extraction call ended and what it answered
FircPdfs ==
    {[filename |-> f, text |-> "plain", extract |-> "returned", IsRelevant |-> TRUE,
      Fields |-> [InwardReference |-> w, FIRCNumber |-> "F1"]]
        : f \in {"a.pdf", "b.pdf"}, w \in InwardRefs}
    \cup {[filename |-> "b.pdf", text |-> "decrypted", extract |-> "returned",
           IsRelevant |-> TRUE, Fields |-> [InwardReference |-> "I1", FIRCNumber |-> "F1"]],
          [filename |-> "a.pdf", text |-> "plain", extract |-> "returned",
           IsRelevant |-> FALSE, Fields |-> [InwardReference |-> "I1", FIRCNumber |-> "F1"]],
          [filename |-> "a.pdf", text |-> "none", extract |-> "returned",
           IsRelevant |-> TRUE, Fields |-> [InwardReference |-> "I1", FIRCNumber |-> "F1"]],
          [filename |-> "a.pdf", text |-> "plain", extract |-> "raised",
           IsRelevant |-> TRUE, Fields |-> [InwardReference |-> "I1", FIRCNumber |-> "F1"]],
          [filename |-> "a.pdf", text |-> "plain", extract |-> "returned",
           IsRelevant |-> TRUE,
           Fields |-> [InwardReference |-> "I1", FIRCNumber |-> "F1", RemitterPK |-> "R2"]]}
    \cup {[filename |-> "a.pdf", text |-> "plain", extract |-> "returned",
           IsRelevant |-> TRUE,
           Fields |-> [InwardReference |-> "I2", FIRCNumber |-> "F1", Remarks |-> "urgent"]]}
    \cup {[filename |-> "a.pdf", text |-> "plain", extract |-> "returned",
           IsRelevant |-> TRUE, Confidence |-> c,
           Fields |-> [InwardReference |-> "I1", FIRCNumber |-> "F1"]] : c \in {"0.1", "high"}}

\* the PDFs that come second in a message of two
SecondPdfs == {a \in FircPdfs : a.text # "decrypted" /\ DOMAIN a.Fields = {"InwardReference", "FIRCNumber"}
                                 /\ a.IsRelevant /\ "Confidence" \notin DOMAIN a
                                 /\ <<a.filename, a.Fields.InwardReference>>
                                        \in {<<"a.pdf", "I1">>, <<"b.pdf", "I2">>}}

\* the body handler runs on a message: lines 219-254, or the extraction raises
\* and the handler's except clause (271) logs it
DisposalHandle ==
    /\ merges < MaxMerges
    /\ merges' = merges + 1
    /\ \/ \E result \in DisposalResults :
            /\ store' = disposal_merge(store, result)
            /\ last' = [op |-> "disposal", pre |-> store, raised |-> FALSE, result |-> result]
       \/ /\ store' = store
          /\ last' = [op |-> "disposal", pre |-> store, raised |-> TRUE]
    /\ UNCHANGED <<runner_vars, extract_vars, decrypt_vars, classify_vars, window_vars>>

\* the attachment handler runs on a message with one or two PDFs, the archive
\* set up or not (lines 392-398)
FircHandle ==
    /\ merges < MaxMerges
    /\ merges' = merges + 1
    /\ \E a \in FircPdfs :
         \/ \E drive \in BOOLEAN :
              /\ store' = firc_merge(store, <<a>>, drive)
              /\ last' = [op |-> "firc", pre |-> store, pdfs |-> <<a>>, drive |-> drive,
                          run |-> firc_merge_all(store, <<a>>, <<>>, drive)]
         \/ \E b \in SecondPdfs :
              /\ store' = firc_merge(store, <<a, b>>, TRUE)
              /\ last' = [op |-> "firc", pre |-> store, pdfs |-> <<a, b>>, drive |-> TRUE,
                          run |-> firc_merge_all(store, <<a, b>>, <<>>, TRUE)]
    /\ UNCHANGED <<runner_vars, extract_vars, decrypt_vars, classify_vars, window_vars>>

StoreInit ==
    /\ Init
    /\ stop_after_match = [r \in Rules |-> TRUE]

StoreNext ==
    \/ DisposalHandle
    \/ FircHandle

StoreSpec == StoreInit /\ [][StoreNext]_vars

----------------------------------------------------------------------------
(* The two upserts as functions, applied to any update: MergeSpec *)

\* the columns and the values of the updates tried
MergeCols == {"RemitterPK", "InwardPK", "AmountFCY"}

ColValues(c) == IF c = "AmountFCY" THEN {"100", "200"} ELSE {"", "K1"}

MergeUpdates ==
    UNION {{u \in [D -> {"", "K1", "100", "200"}] : \A c \in D : u[c] \in ColValues(c)}
              : D \in SUBSET MergeCols}

\* allowed_cols of the caller: every column, or the key columns only
AllowedSets == {MergeCols, {"RemitterPK", "InwardPK"}}

\* upsert_selected is applied to the table and the frame is written
UpsertSelected ==
    /\ merges < MaxUpserts
    /\ merges' = merges + 1
    /\ \E pk_col \in {"RemitterPK", "InwardPK"}, updates \in MergeUpdates,
          allowed_cols \in AllowedSets :
         /\ store' = write_read(upsert_selected(store, pk_col, updates, allowed_cols))
         /\ last' = [op |-> "upsert_selected", pre |-> store, pk_col |-> pk_col,
                     updates |-> updates, allowed_cols |-> allowed_cols,
                     out |-> upsert_selected(store, pk_col, updates, allowed_cols)]
    /\ UNCHANGED <<runner_vars, extract_vars, decrypt_vars, classify_vars, window_vars>>

\* upsert_by_inward is applied
UpsertByInward ==
    /\ merges < MaxUpserts
    /\ merges' = merges + 1
    /\ \E updates \in MergeUpdates :
         /\ store' = write_read(upsert_by_inward(store, updates))
         /\ last' = [op |-> "upsert_by_inward", pre |-> store, pk_col |-> "InwardPK",
                     updates |-> updates, allowed_cols |-> DOMAIN updates,
                     out |-> upsert_by_inward(store, updates)]
    /\ UNCHANGED <<runner_vars, extract_vars, decrypt_vars, classify_vars, window_vars>>

MergeInit == StoreInit

MergeNext ==
    \/ UpsertSelected
    \/ UpsertByInward

MergeSpec == MergeInit /\ [][MergeNext]_vars

----------------------------------------------------------------------------
(* Properties of the merges, checked under MergeSpec and StoreSpec *)

IsUpsert == last.op \in {"upsert_selected", "upsert_by_inward"}

\* the last upsert, applied to another frame
apply(df) ==
    IF last.op = "upsert_selected"
    THEN upsert_selected(df, last.pk_col, last.updates, last.allowed_cols)
    ELSE upsert_by_inward(df, last.updates)

\* the key value of the last upsert
LastPk == Get(safe(last.updates, last.allowed_cols), last.pk_col)

Empty(x) == x \in {"", NaN}

\* row n of the frame before the last upsert is the same in the frame after it
RowKept(n) == \A c \in last.pre.cols : last.out.rows[n][c] = last.pre.rows[n][c]

\* C11 as stated: any update applied twice gives the frame that applying it
\* once gives.
C11_MergeIdempotent == IsUpsert => apply(last.out) = last.out

\* C11 amended: an update with a non-empty key applied twice gives the frame
\* that applying it once gives, in memory and through the file.
C11_KeyedMergeIdempotent ==
    (IsUpsert /\ LastPk # "") =>
        /\ apply(last.out) = last.out
        /\ apply(write_read(last.out)) = write_read(last.out)

\* a keyed update changed a cell of a row that was there
C11_Witness ==
    /\ IsUpsert
    /\ LastPk # ""
    /\ Len(last.out.rows) = Len(last.pre.rows)
    /\ \E n \in 1..Len(last.pre.rows) : ~RowKept(n)

\* C13 as stated: a keyed upsert_selected into the empty table leaves one row
\* and the table's columns are exactly the allowed columns of the update.
C13_ColumnsExactlySupplied ==
    (last.op = "upsert_selected" /\ last.pre.cols = {} /\ LastPk # "") =>
        /\ Len(last.out.rows) = 1
        /\ last.out.cols = DOMAIN last.updates \cap last.allowed_cols

\* C13 amended: a keyed upsert_selected into the empty table leaves one row;
\* the table has exactly the allowed columns, and the row holds the update's
\* value in every allowed column the update has and nothing in the others.
C13_OneRowAllowedColumns ==
    (last.op = "upsert_selected" /\ last.pre.cols = {} /\ LastPk # "") =>
        /\ Len(last.out.rows) = 1
        /\ last.out.cols = last.allowed_cols
        /\ \A c \in last.out.cols :
             IF c \in DOMAIN last.updates
             THEN last.out.rows[1][c] = last.updates[c]
             ELSE Empty(last.out.rows[1][c])
        /\ store = write_read(last.out)

\* a keyed update with a column that is not allowed and without one that is
\* went into the empty table
C13_Witness ==
    /\ last.op = "upsert_selected"
    /\ last.pre.cols = {}
    /\ LastPk # ""
    /\ DOMAIN last.updates \ last.allowed_cols # {}
    /\ last.allowed_cols \ DOMAIN last.updates # {}
    /\ Len(store.rows) = 1

\* C14: an update without a key value appends a row and leaves every row as
\* it was; an update with a key value leaves every row whose key cell is
\* empty as it was.
C14_UnkeyedAppendsNeverTarget ==
    /\ (IsUpsert /\ LastPk = "") =>
         /\ Len(last.out.rows) = Len(last.pre.rows) + 1
         /\ \A n \in 1..Len(last.pre.rows) : RowKept(n)
    /\ (IsUpsert /\ LastPk # "") =>
         \A n \in 1..Len(last.pre.rows) :
            (last.pk_col \notin last.pre.cols \/ Empty(last.pre.rows[n][last.pk_col]))
                => RowKept(n)

\* a row was appended without a key, and the next update, without a key too,
\* was appended beside it
C14_Witness ==
    /\ IsUpsert
    /\ LastPk = ""
    /\ Len(last.pre.rows) = 1
    /\ last.pk_col \in last.pre.cols
    /\ Empty(last.pre.rows[1][last.pk_col])
    /\ Len(store.rows) = 2

\* the cell of row n in column c before the last handler run
PreCell(n, c) == IF c \in last.pre.cols THEN last.pre.rows[n][c] ELSE ""

\* the columns the handler that ran last may write
AllowedOfLast == IF last.op = "disposal" THEN ALLOWED_TO_UPDATE ELSE FIRC_WRITES

\* C12: a handler run leaves every cell of a column outside the handler's
\* allowed columns as it was, whatever the extraction answered.
C12_OnlyAllowedColumnsWritten ==
    last.op \in {"disposal", "firc"} =>
        \A n \in 1..Len(last.pre.rows) :
            \A c \in store.cols \ AllowedOfLast :
                store.rows[n][c] = PreCell(n, c)

----------------------------------------------------------------------------
(* The extraction call and its retries: call_openai_financials (disposal_handler.py *)
(* 154-196) and call_openai_firc (firc_handler.py 318-359): RetrySpec            *)

\* "attempts = 3"
attempts == 3

\* "shrink_steps = [1.0, 0.6, 0.35]", in percent
shrink_steps == <<100, 60, 35>>

\* "factor = shrink_steps[attempt] if attempt < len(shrink_steps) else 0.25"
factor(n) == IF n < Len(shrink_steps) THEN shrink_steps[n + 1] ELSE 25

\* the power of two at or below k
RECURSIVE pow2_below(_)
pow2_below(k) == IF k < 2 THEN 1 ELSE 2 * pow2_below(k \div 2)

\* "len(txt) * factor" is a product of doubles, rounded to the nearest double.
\* 1.0 and 0.25 are exact, and the double for 0.6 is near enough to 0.6 for
\* every length. The double for 0.35 is 0.35 - 0.4 * 2^-54: when 0.35 * len
\* is an integer K above 1.75 times the power of two below it, the product
\* rounds to the double just under K.
product_below_integer(len, n) ==
    /\ factor(n) = 35
    /\ len > 0
    /\ (len * 35) % 100 = 0
    /\ 4 * ((len * 35) \div 100) > 7 * pow2_below((len * 35) \div 100)

use_txt_len_unshrunk(len, n) == len

\* len(trimmed[: int(len(trimmed) * factor)]): int() drops the fraction of
\* the double
use_txt_len(len, n) ==
    IF product_below_integer(len, n) THEN (len * factor(n)) \div 100 - 1
    ELSE (len * factor(n)) \div 100

\* OPENAI_MAX_CHARS
max_chars == 60 * MaxChars

\* the lengths of the texts a handler has: short ones, and multiples of 60 up
\* to one beyond max_chars
TextLengths == (0..MaxChars) \cup {60 * k : k \in 1..(MaxChars + 1)}

\* "txt = pdf_text[:max_chars]", "filtered[:max_chars]"
pre_trim(len) == IF len > max_chars THEN max_chars ELSE len

\* how a try block ends: the parsed reply is returned, or an exception is
\* raised by the service call or by json.loads on the reply; the except clause
\* sees only str(e)
Outcomes ==
    {[kind |-> "returned"],
     [kind |-> "raised", by |-> "service", says_rate_limit |-> TRUE, says_429 |-> FALSE],
     [kind |-> "raised", by |-> "service", says_rate_limit |-> FALSE, says_429 |-> TRUE],
     [kind |-> "raised", by |-> "service", says_rate_limit |-> FALSE, says_429 |-> FALSE],
     [kind |-> "raised", by |-> "json.loads", says_rate_limit |-> FALSE, says_429 |-> FALSE],
     [kind |-> "raised", by |-> "json.loads", says_rate_limit |-> FALSE, says_429 |-> TRUE]}

\* '"rate limit" in msg.lower() or "429" in msg'
is_rate_limit_always(o) == o.kind = "raised"

is_rate_limit(o) == o.kind = "raised" /\ (o.says_rate_limit \/ o.says_429)

\* "time.sleep(2 * (attempt + 1))"
backoff(n) == 2 * (n + 1)

\* "return json.loads(content)" leaves the loop
after_return_again == "try"

after_return == "returned"

\* where the loop goes after a rate-limited try: "continue", and after the
\* last one "raise RuntimeError(... all retries exhausted ...)"
after_rate_limit(n) == IF n + 1 < attempts THEN "try" ELSE "raised"

\* a handler calls the extraction on a text
StartExtract ==
    /\ x_pc = "idle"
    /\ \E h \in {"disposal", "firc"}, n \in TextLengths :
         /\ h = "firc" => n > 0
         /\ x_handler' = h
         /\ txt_len' = pre_trim(n)
    /\ attempt' = 0
    /\ x_pc' = "try"
    /\ UNCHANGED <<service_calls, sleeps, outcomes>>
    /\ UNCHANGED <<runner_vars, store_vars, decrypt_vars, classify_vars, window_vars>>

\* one pass of "for attempt in range(attempts)": the service is called with
\* the shrunk text; return, back off and go on, or raise
Try ==
    /\ x_pc = "try"
    /\ attempt < attempts
    /\ service_calls' = Append(service_calls, use_txt_len(txt_len, attempt))
    /\ \E o \in Outcomes :
         /\ outcomes' = Append(outcomes, o)
         /\ IF o.kind = "returned"
            THEN /\ x_pc' = after_return
                 /\ UNCHANGED <<attempt, sleeps>>
            ELSE IF is_rate_limit(o)
            THEN /\ sleeps' = Append(sleeps, backoff(attempt))
                 /\ attempt' = attempt + 1
                 /\ x_pc' = after_rate_limit(attempt)
            ELSE /\ x_pc' = "raised"
                 /\ UNCHANGED <<attempt, sleeps>>
    /\ UNCHANGED <<x_handler, txt_len>>
    /\ UNCHANGED <<runner_vars, store_vars, decrypt_vars, classify_vars, window_vars>>

\* the call is over; the handler may call again for another text
EndExtract ==
    /\ x_pc \in {"returned", "raised"}
    /\ x_pc' = "idle"
    /\ attempt' = 0
    /\ service_calls' = <<>>
    /\ sleeps' = <<>>
    /\ outcomes' = <<>>
    /\ UNCHANGED <<x_handler, txt_len>>
    /\ UNCHANGED <<runner_vars, store_vars, decrypt_vars, classify_vars, window_vars>>

RetryInit == StoreInit

RetryNext ==
    \/ StartExtract
    \/ Try
    \/ EndExtract

RetrySpec == RetryInit /\ [][RetryNext]_vars

\* the exception says "rate limit" or "429"
Transient(o) == o.kind = "raised" /\ (o.says_rate_limit \/ o.says_429)

\* C15: one extraction makes at most 3 service calls, none after a call that
\* returned, and a call is made only as the first or after a rate-limited one;
\* two rate-limited calls and a third that returns make exactly 3.
C15_AtMostThreeNoneAfterSuccess ==
    /\ Len(service_calls) <= attempts
    /\ Len(outcomes) = Len(service_calls)
    /\ \A k \in 1..(Len(outcomes) - 1) : Transient(outcomes[k])
    /\ (outcomes # <<>> /\ outcomes[Len(outcomes)].kind = "returned") => x_pc \in {"returned"}
    /\ x_pc = "returned" => outcomes[Len(outcomes)].kind = "returned"

\* two calls were rate-limited and the third returned
C15_Witness ==
    /\ x_pc = "returned"
    /\ Len(service_calls) = 3
    /\ Transient(outcomes[1])
    /\ Transient(outcomes[2])
    /\ outcomes[3].kind = "returned"

\* C16: an exception that is not recognised as a rate limit ends the call at
\* once: it is the last service call, no sleep follows it, and the call raises.
C16_NonTransientAborts ==
    \A k \in 1..Len(outcomes) :
        (outcomes[k].kind = "raised" /\ ~Transient(outcomes[k])) =>
            /\ k = Len(outcomes)
            /\ Len(service_calls) = k
            /\ Len(sleeps) = k - 1
            /\ x_pc = "raised"

\* after one rate-limited call the second call failed for another reason
C16_Witness ==
    /\ x_pc = "raised"
    /\ Len(outcomes) = 2
    /\ outcomes[2].kind = "raised"
    /\ ~Transient(outcomes[2])
    /\ Len(sleeps) = 1

----------------------------------------------------------------------------
(* Properties of the handlers, checked under StoreSpec *)

\* the last run of the attachment handler went through all its PDFs
FircDone == last.op = "firc" /\ ~last.run.raised

\* the extraction of a PDF gave no linkage field: no text, not relevant, or
\* no InwardReference
NoLinkage(pdf) ==
    \/ pdf.text = "none"
    \/ ~pdf.IsRelevant
    \/ Get(pdf.Fields, "InwardReference") = ""

\* the names of the attachments of the modelled messages
AttachmentNames == {"a.pdf", "b.pdf"}

\* the names listed in the SavedPDFs of the first row whose InwardPK is w
SavedNames(w) ==
    split(store.rows[MinOf({n \in 1..Len(store.rows) : store.rows[n]["InwardPK"] = w})]["SavedPDFs"])

\* C17: when an extraction of the attachment handler raises, the merges made
\* for the earlier PDFs of the message are in the table.
C17_EarlierMergesWritten ==
    (last.op = "firc" /\ last.run.raised) => store = write_read(last.run.df)

C19_FilenameRecordedOnce ==
    FircDone =>
        \A n \in 1..Len(last.pdfs) :
            ~NoLinkage(last.pdfs[n]) =>
                /\ last.pdfs[n].filename \in SavedNames(last.pdfs[n].Fields.InwardReference)
                /\ SavedNames(last.pdfs[n].Fields.InwardReference) \subseteq AttachmentNames

\* the references the body handler's last extraction gave
LastRemitterRef ==
    IF last.result.IsRelevant THEN last.result.FinancialFields.RemitterReference ELSE ""

LastInwardRef ==
    IF last.result.IsRelevant THEN last.result.FinancialFields.InwardReference ELSE ""

\* the rows of the table before the last run whose cell in column c is v
PreRows(c, v) == {n \in 1..Len(last.pre.rows) : PreCell(n, c) = v}

\* C20: with a sender reference the body handler merges on RemitterPK (a row
\* holding the bank reference under another sender reference is not the
\* target); without one it merges on InwardPK, and a bank reference no row
\* has yet gives a new row keyed by it.
C20_KeySelection ==
    (last.op = "disposal" /\ ~last.raised) =>
        /\ LastRemitterRef # "" =>
             /\ store = write_read(upsert_selected(last.pre, "RemitterPK",
                                     disposal_updates(last.result), ALLOWED_TO_UPDATE))
             /\ Len(store.rows) =
                  Len(last.pre.rows) + (IF PreRows("RemitterPK", LastRemitterRef) = {} THEN 1 ELSE 0)
             /\ \A n \in PreRows("InwardPK", LastInwardRef) \ PreRows("RemitterPK", LastRemitterRef) :
                  \A c \in last.pre.cols : store.rows[n][c] = last.pre.rows[n][c]
        /\ (LastRemitterRef = "" /\ LastInwardRef # "") =>
             /\ store = write_read(upsert_selected(last.pre, "InwardPK",
                                     disposal_updates(last.result), ALLOWED_TO_UPDATE))
             /\ PreRows("InwardPK", LastInwardRef) = {} =>
                  /\ Len(store.rows) = Len(last.pre.rows) + 1
                  /\ store.rows[Len(store.rows)]["InwardPK"] = LastInwardRef
                  /\ store.rows[Len(store.rows)]["RemitterPK"] = ""

\* a message gave a sender reference and a bank reference that a row of another
\* sender already held: a second row was made
C20_Witness ==
    /\ last.op = "disposal"
    /\ ~last.raised
    /\ LastRemitterRef # ""
    /\ LastInwardRef # ""
    /\ PreRows("InwardPK", LastInwardRef) # {}
    /\ PreRows("RemitterPK", LastRemitterRef) = {}
    /\ Len(store.rows) = 2

\* the cell of row n in column c, "" when the table has no such column
Cell(n, c) == IF c \in store.cols THEN store.rows[n][c] ELSE ""

\* C3: no two rows share a non-empty RemitterPK and no two rows share a
\* non-empty InwardPK, after any sequence of merges by the two handlers.
C3_PKUnique ==
    \A a, b \in 1..Len(store.rows) :
        a # b =>
            /\ (Cell(a, "RemitterPK") # "" => Cell(a, "RemitterPK") # Cell(b, "RemitterPK"))
            /\ (Cell(a, "InwardPK") # "" => Cell(a, "InwardPK") # Cell(b, "InwardPK"))

----------------------------------------------------------------------------
(* firc_handler.py: password candidates and decryption of one PDF *)

\* Python's None
None == "<None>"

\* str.strip() on the strings of the model
strip(s) ==
    CASE s = "p1 " -> "p1"
      [] s = " p2" -> "p2"
      [] s = " "   -> ""
      [] OTHER     -> s

\* [f(x) for x in s]
RECURSIVE strip_all(_)
strip_all(s) ==
    IF s = <<>> THEN <<>> ELSE <<strip(Head(s))>> \o strip_all(Tail(s))

\* [x for x in s if x], "" being the falsy string
truthy(s) == SelectSeq(s, LAMBDA x : x # "")

\* "seen=set(); out=[]; for p in cands: if p not in seen: ..." kept as written
\* in both places (gather_candidate_passwords 175-178, handle 422-425)
RECURSIVE dedup_from(_, _)
dedup_from(s, seen) ==
    IF s = <<>> THEN <<>>
    ELSE IF Head(s) \in seen THEN dedup_from(Tail(s), seen)
    ELSE <<Head(s)>> \o dedup_from(Tail(s), seen \cup {Head(s)})

dedup_nothing(s) == s

dedup(s) == dedup_from(s, {})

\* gather_candidate_passwords. env holds the environment variables ("" when
\* unset), PDF_PASSWORDS as its comma-separated pieces; table holds, for each
\* map of passwords.json, the values of the keys found in the sender or the
\* subject; hints is what re.findall returns on the body.
gather_candidate_passwords(env, table, hints) ==
    dedup(  (IF env.PDF_PASSWORD # "" THEN <<strip(env.PDF_PASSWORD)>> ELSE <<>>)
         \o strip_all(truthy(env.banks))
         \o truthy(strip_all(env.PDF_PASSWORDS))
         \o table.senders \o table.domains \o table.subjects
         \o truthy(strip_all(hints)))

\* handle, lines 416-425
candidates(m, env, table, hints) ==
    dedup(  (IF m.pdf_password # "" THEN <<m.pdf_password>> ELSE <<>>)
         \o gather_candidate_passwords(env, table, hints))

\* is_pdf_encrypted: a document PyPDF2 cannot open counts as encrypted
is_pdf_encrypted(pdf) ==
    IF pdf.PyPDF2 = "raises" THEN TRUE ELSE pdf.protected

\* reader.decrypt(pw) != 0 and the copy is written
PyPDF2_decrypts(pdf, pw) == pdf.PyPDF2 = "opens" /\ pw = pdf.password

\* pikepdf.open(src_path, password=pw) returns: the password is ignored for a
\* document that has none
pikepdf_opens(pdf, pw) == ~pdf.protected \/ pw = pdf.password

\* download_attachment returns downloads/<filename>
download_attachment == "downloads/a.pdf"

\* tempfile.mkstemp(suffix=".pdf")
tmp == "/tmp/" \o TempName(1)

\* ---- the log lines, each a template and the values formatted into it
Line(text, args) == [text |-> text, args |-> args]

\* runner.py, line 204
matched_line(m) ==
    Line("Matched category: {} -> {}.{}",
         <<m.name, m.handler_module, m.handler_function>>)

decrypted_line_with_password(pw) ==
    Line("PDF decrypted successfully with a candidate password.", <<pw>>)

\* firc_handler.py, line 431
decrypted_line(pw) ==
    Line("PDF decrypted successfully with a candidate password.", <<>>)

\* ---- inputs
Passwords == {"p1", "p2"}

\* the match of a rule of rules.py that dispatches to firc_handler
Matches ==
    {[name |-> "FIRC", handler_module |-> "handlers.firc_handler",
      handler_function |-> "handle", pdf_password |-> pw] :
        pw \in {""} \cup Passwords}

Envs ==
    {[PDF_PASSWORD |-> g, banks |-> b, PDF_PASSWORDS |-> l] :
        g \in {"", "p1 ", " "},
        b \in {<<"", "", "">>, <<"p2", "", "p1 ">>},
        l \in {<<>>, <<" p2", " ", "p1">>}}

Tables ==
    {[senders |-> <<>>, domains |-> <<>>, subjects |-> <<>>],
     [senders |-> <<"p2">>, domains |-> <<"p1", "p2">>, subjects |-> <<>>],
     [senders |-> <<>>, domains |-> <<>>, subjects |-> <<"p1">>]}

Hints == {<<>>, <<"p2">>, <<"p1", "p1">>}

Pdfs ==
    {[protected |-> FALSE, password |-> None, PyPDF2 |-> r, pikepdf |-> q] :
        r \in {"opens", "raises"}, q \in {"imports", "raises"}}
    \cup
    {[protected |-> TRUE, password |-> pw, PyPDF2 |-> r, pikepdf |-> q] :
        pw \in Passwords, r \in {"opens", "raises", "no_cipher"},
        q \in {"imports", "raises"}}

\* ---- handle, lines 403-427, after the runner dispatched the match
BeginPdf ==
    /\ d_pc = "idle"
    /\ \E m \in Matches, env \in Envs, table \in Tables, hints \in Hints, pdf \in Pdfs :
        LET cs == candidates(m, env, table, hints)
            l0 == <<matched_line(m)>>
                  \o (IF m.pdf_password # ""
                      THEN <<Line("Using password provided by rules.", <<>>)>>
                      ELSE <<>>)
                  \o <<Line("Saved PDF: {}", <<download_attachment>>)>>
        IN  /\ d_in' = [match |-> m, env |-> env, table |-> table,
                        hints |-> hints, pdf |-> pdf]
            /\ IF ~is_pdf_encrypted(pdf)
               THEN /\ cands' = <<>>
                    /\ logged' = l0
                    /\ d_pc' = "done"
               ELSE /\ cands' = cs
                    /\ IF cs = <<>>
                       THEN /\ logged' = l0 \o
                                <<Line("PDF appears encrypted. Trying candidate passwords...", <<>>),
                                  Line("No password candidates available; will upload as-is and skip extraction.", <<>>)>>
                            /\ d_pc' = "done"
                       ELSE /\ logged' = l0 \o
                                <<Line("PDF appears encrypted. Trying candidate passwords...", <<>>)>>
                            /\ d_pc' = "open"
    /\ d_k' = 1
    /\ tries' = <<>>
    /\ dec' = [path |-> download_attachment, used |-> None]
    /\ UNCHANGED <<runner_vars, store_vars, extract_vars, classify_vars, window_vars>>

\* try_decrypt_pdf, lines 187-191 and 205-206
OpenReader ==
    /\ d_pc = "open"
    /\ d_pc' = IF d_in.pdf.PyPDF2 = "raises" THEN "fallback"
               ELSE IF ~d_in.pdf.protected THEN "returned"
               ELSE "PyPDF2"
    /\ UNCHANGED <<d_in, cands, d_k, tries, dec, logged>>
    /\ UNCHANGED <<runner_vars, store_vars, extract_vars, classify_vars, window_vars>>

\* try_decrypt_pdf, lines 192-204: one candidate against PyPDF2
TryPyPDF2 ==
    /\ d_pc = "PyPDF2"
    /\ IF d_k > Len(cands)
       THEN /\ d_pc' = "fallback"
            /\ UNCHANGED <<d_k, tries, dec>>
       ELSE /\ tries' = Append(tries, [backend |-> "PyPDF2", pw |-> cands[d_k]])
            /\ IF PyPDF2_decrypts(d_in.pdf, cands[d_k])
               THEN /\ dec' = [path |-> tmp, used |-> cands[d_k]]
                    /\ d_pc' = "returned"
                    /\ UNCHANGED d_k
               ELSE /\ d_k' = d_k + 1
                    /\ UNCHANGED <<d_pc, dec>>
    /\ UNCHANGED <<d_in, cands, logged>>
    /\ UNCHANGED <<runner_vars, store_vars, extract_vars, classify_vars, window_vars>>

\* try_decrypt_pdf, lines 209-210 and 219-222: "import pikepdf"
Fallback ==
    /\ d_pc = "fallback"
    /\ d_pc' = IF d_in.pdf.pikepdf = "raises" THEN "returned" ELSE "pikepdf"
    /\ d_k' = 1
    /\ UNCHANGED <<d_in, cands, tries, dec, logged>>
    /\ UNCHANGED <<runner_vars, store_vars, extract_vars, classify_vars, window_vars>>

\* try_decrypt_pdf, lines 211-218 and 222: one candidate against pikepdf
TryPikepdf ==
    /\ d_pc = "pikepdf"
    /\ IF d_k > Len(cands)
       THEN /\ d_pc' = "returned"
            /\ UNCHANGED <<d_k, tries, dec>>
       ELSE /\ tries' = Append(tries, [backend |-> "pikepdf", pw |-> cands[d_k]])
            /\ IF pikepdf_opens(d_in.pdf, cands[d_k])
               THEN /\ dec' = [path |-> tmp, used |-> cands[d_k]]
                    /\ d_pc' = "returned"
                    /\ UNCHANGED d_k
               ELSE /\ d_k' = d_k + 1
                    /\ UNCHANGED <<d_pc, dec>>
    /\ UNCHANGED <<d_in, cands, logged>>
    /\ UNCHANGED <<runner_vars, store_vars, extract_vars, classify_vars, window_vars>>

\* handle, lines 429-435
EndPdf ==
    /\ d_pc = "returned"
    /\ logged' = Append(logged,
           IF dec.path # download_attachment THEN decrypted_line(dec.used)
           ELSE Line("Failed to decrypt PDF with provided candidates; will upload as-is and skip extraction.", <<>>))
    /\ d_pc' = "done"
    /\ UNCHANGED <<d_in, cands, d_k, tries, dec>>
    /\ UNCHANGED <<runner_vars, store_vars, extract_vars, classify_vars, window_vars>>

\* handle, lines 510-522, for a PDF whose extraction gave an InwardReference
Summary ==
    /\ d_pc = "done"
    /\ logged' = logged \o <<Line("=== FIRC LLM Summary ===", <<>>)>>
                        \o (IF dec.used # None
                            THEN <<Line("DecryptionPwd    : (candidate used)", <<>>)>>
                            ELSE <<>>)
                        \o <<Line("=========================", <<>>)>>
    /\ d_pc' = "summarised"
    /\ UNCHANGED <<d_in, cands, d_k, tries, dec>>
    /\ UNCHANGED <<runner_vars, store_vars, extract_vars, classify_vars, window_vars>>

DecryptNext ==
    \/ BeginPdf
    \/ OpenReader
    \/ TryPyPDF2
    \/ Fallback
    \/ TryPikepdf
    \/ EndPdf
    \/ Summary

DecryptSpec == StoreInit /\ [][DecryptNext]_vars

----------------------------------------------------------------------------
(* Claims on the password candidates and the decryption (DecryptSpec) *)

\* the candidates of the PDF in hand have been assembled
Gathered == d_pc # "idle" /\ is_pdf_encrypted(d_in.pdf)

Stripped(s) == [n \in 1..Len(s) |-> strip(s[n])]

Present(s) == SelectSeq(s, LAMBDA x : x # "")

\* every password the sources supply, in the priority order of the sources:
\* rule override, global default, per-source named defaults, comma-separated
\* list, lookup table (sender, domain, subject), body-text hints
PriorityOrder ==
       Present(<<d_in.match.pdf_password>>)
    \o Stripped(Present(<<d_in.env.PDF_PASSWORD>>))
    \o Stripped(Present(d_in.env.banks))
    \o Present(Stripped(d_in.env.PDF_PASSWORDS))
    \o d_in.table.senders \o d_in.table.domains \o d_in.table.subjects
    \o d_in.hints

FirstAt(s, x) == MinOf({n \in 1..Len(s) : s[n] = x})

\* C21: the candidate list holds every supplied password exactly once, and
\* the candidates stand in the order of their first occurrence in the
\* priority order of the sources.
C21_CandidatesDedupFirstPosition ==
    Gathered =>
        /\ \A a, b \in 1..Len(cands) : a # b => cands[a] # cands[b]
        /\ Range(cands) = Range(PriorityOrder)
        /\ \A a, b \in 1..Len(cands) :
               a < b => FirstAt(PriorityOrder, cands[a]) < FirstAt(PriorityOrder, cands[b])

\* the rule's password is also a body hint and a second password comes from
\* a source in between
C21_Witness ==
    /\ Gathered
    /\ d_in.match.pdf_password # ""
    /\ d_in.match.pdf_password \in Range(d_in.hints)
    /\ Len(cands) >= 2
    /\ Len(PriorityOrder) > Len(cands) + 1

\* try_decrypt_pdf was called and has returned
Decrypted ==
    /\ d_pc \in {"returned", "done", "summarised"}
    /\ is_pdf_encrypted(d_in.pdf)
    /\ cands # <<>>

TriedOn(b) ==
    LET s == SelectSeq(tries, LAMBDA t : t.backend = b)
    IN  [n \in 1..Len(s) |-> s[n].pw]

AttemptOpens(t) ==
    IF t.backend = "PyPDF2" THEN PyPDF2_decrypts(d_in.pdf, t.pw)
    ELSE pikepdf_opens(d_in.pdf, t.pw)

\* C22: every candidate is tried in list order against the first backend
\* before any is tried against the second; the first attempt that succeeds
\* ends the call with (new path, that password); when every attempt fails or
\* the document is not protected the call returns (original path, none).
C22_FirstBackendFullyThenSecond ==
    Decrypted =>
        /\ \A a, b \in 1..Len(tries) :
               a < b => ~(tries[a].backend = "pikepdf" /\ tries[b].backend = "PyPDF2")
        /\ \A b \in {"PyPDF2", "pikepdf"} :
               TriedOn(b) = SubSeq(cands, 1, Len(TriedOn(b)))
        /\ (TriedOn("pikepdf") # <<>> /\ d_in.pdf.PyPDF2 # "raises")
               => TriedOn("PyPDF2") = cands
        /\ \A n \in 1..Len(tries) :
               AttemptOpens(tries[n]) =>
                   /\ n = Len(tries)
                   /\ dec = [path |-> tmp, used |-> tries[n].pw]
        /\ ((\A n \in 1..Len(tries) : ~AttemptOpens(tries[n])) \/ ~d_in.pdf.protected)
               => dec = [path |-> download_attachment, used |-> None]

\* every password value the run holds
Secrets ==
    (Range(PriorityOrder) \cup {d_in.match.pdf_password, d_in.env.PDF_PASSWORD}
        \cup Range(d_in.env.banks) \cup Range(d_in.env.PDF_PASSWORDS)
        \cup {d_in.pdf.password}) \ {"", " ", None}

\* C29: no log line written while dispatching, gathering candidates or
\* decrypting carries a password value; a successful decryption is logged as
\* the fact that a candidate was used, without the candidate.
C29_NoPasswordLogged ==
    d_pc # "idle" =>
        /\ \A n \in 1..Len(logged) : Range(logged[n].args) \cap Secrets = {}
        /\ (d_pc \in {"done", "summarised"} /\ dec.used # None) =>
               \E n \in 1..Len(logged) :
                   logged[n] = [text |-> "PDF decrypted successfully with a candidate password.",
                                args |-> <<>>]

\* a rule password was given, a candidate decrypted the PDF and the summary
\* was written
C29_Witness ==
    /\ d_pc = "summarised"
    /\ d_in.match.pdf_password # ""
    /\ dec.used \in Secrets
    /\ Len(logged) >= 7

----------------------------------------------------------------------------
(* rules.py: the text predicates of categorize *)

\* A text is a sequence of tokens: a word as written in lower case, with the
\* mark that the text spells it with capitals, or one whitespace character.
Cap(w) == [word |-> w, caps |-> TRUE]

Low(w) == [word |-> w, caps |-> FALSE]

SP == Low(" ")

\* what the \s of re matches
IsSpace(t) == t.word \in {" ", "\t", "\n"}

\* words joined by single spaces, as the needles of rules.py are written
Phrase(ws) ==
    [n \in 1..(2 * Len(ws) - 1) |-> IF n % 2 = 1 THEN ws[(n + 1) \div 2] ELSE SP]

\* str.lower()
lower(s) == [n \in 1..Len(s) |-> [s[n] EXCEPT !.caps = FALSE]]

RECURSIVE lstrip(_)
lstrip(s) == IF s # <<>> /\ IsSpace(Head(s)) THEN lstrip(Tail(s)) ELSE s

RECURSIVE rstrip(_)
rstrip(s) ==
    IF s # <<>> /\ IsSpace(s[Len(s)]) THEN rstrip(SubSeq(s, 1, Len(s) - 1)) ELSE s

\* re.sub(r"\s+", " ", s): the first character of every run of whitespace
\* becomes a space, the rest of the run goes
collapse(s) ==
    LET marked == [n \in 1..Len(s) |->
                      [tok |-> s[n], first |-> (n = 1 \/ ~IsSpace(s[n - 1]))]]
        kept == SelectSeq(marked, LAMBDA m : ~IsSpace(m.tok) \/ m.first)
    IN  [n \in 1..Len(kept) |-> IF IsSpace(kept[n].tok) THEN SP ELSE kept[n].tok]

_norm_spaces_verbatim(s) == s

_norm_spaces(s) == rstrip(lstrip(collapse(lower(s))))

\* Python's "needle in hay" on texts
is_in(needle, hay) ==
    \E k \in 0..(Len(hay) - Len(needle)) : SubSeq(hay, k + 1, k + Len(needle)) = needle

_contains(hay, needle) == is_in(_norm_spaces(needle), _norm_spaces(hay))

_contains_all(hay, needles) ==
    LET norm_hay == _norm_spaces(hay)
    IN  \A n \in 1..Len(needles) : is_in(_norm_spaces(needles[n]), norm_hay)

has_attachment(ctx) == ctx.Attachments # <<>>

\* a filename ends with "." + ext
endswith(f, ext) == Len(f) >= 2 /\ SubSeq(f, Len(f) - 1, Len(f)) = <<Low("."), ext>>

attachment_ext_is(ctx, exts) ==
    LET files == [n \in 1..Len(ctx.Attachments) |-> lower(ctx.Attachments[n])]
    IN  \E x \in 1..Len(exts) : \E n \in 1..Len(files) :
            endswith(files[n], lower(<<exts[x]>>)[1])

attachment_name_contains(ctx, needles) ==
    LET files == [n \in 1..Len(ctx.Attachments) |-> lower(ctx.Attachments[n])]
    IN  \E n \in 1..Len(files) : \E x \in 1..Len(needles) :
            is_in(lower(<<needles[x]>>), files[n])

\* ---- the needles of the three rules, lines 71-80, 107-115 and 144-150
subject_needle(r) ==
    CASE r = 1 -> Phrase(<<Cap("disposal"), Cap("required"), Cap("for"), Cap("fcy"),
                           Cap("inward")>>)
      [] r = 2 -> Phrase(<<Cap("debit"), Cap("cum"), Cap("credit"), Cap("advice"),
                           Cap("for"), Cap("fcy"), Cap("inward"), Cap("remittance")>>)
      [] r = 3 -> Phrase(<<Cap("miscellaneous_advices"), Low("-"), Cap("inward"),
                           Cap("remittance"), Low("-"), Cap("ybl"), Cap("ref"), Cap("no")>>)

body_needles(r) ==
    CASE r = 1 ->
           << <<Cap("fcyinward.disposal@hdfcbank.com")>>,
              <<Low("promoters@canopusinfosystems.com")>>,
              Phrase(<<Cap("we"), Low("are"), Low("in"), Low("receipt"), Low("of"),
                       Low("following"), Low("inward"), Low("remittance.")>>),
              Phrase(<<Cap("kindly"), Low("provide"), Low("following"), Low("disposal"),
                       Low("instructions")>>),
              <<Cap("inw_no")>> >>
      [] r = 2 ->
           << <<Cap("inward.remittances@hdfcbank.com")>>,
              <<Low("promoters@canopusinfosystems.com")>>,
              Phrase(<<Cap("please"), Low("find"), Low("the"), Low("attached"),
                       Cap("debit"), Cap("cum"), Cap("credit"), Low("advice"), Low("for"),
                       Cap("inward")>>),
              Phrase(<<Cap("for"), Low("any"), Cap("queries,please"), Low("write"),
                       Low("to"), Low("us"), Low("at"), Low("firchelpdesk@hdfcbank.com")>>) >>
      [] r = 3 ->
           << <<Low("yestouch@yesbank.in")>>,
              Phrase(<<Cap("we"), Low("attach"), Low("herewith"), Low("the"),
                       Low("transaction"), Low("advice"), Low("for"), Low("trade"),
                       Low("transaction"), Low("reference")>>) >>

\* ---- the predicate of each rule, lines 71-83, 107-119 and 144-154
rule_ok(r, ctx) ==
    /\ _contains(ctx.Subject, subject_needle(r))
    /\ _contains_all(ctx.Body, body_needles(r))
    /\ r >= 2 => (has_attachment(ctx) /\ attachment_ext_is(ctx, <<Low("pdf")>>))
    /\ r = 3 => attachment_name_contains(ctx, <<Low("firc")>>)

\* the dict a rule appends (without its "why")
match_of(r) ==
    CASE r = 1 -> [name |-> "inward_remmittance_intimation",
                   handler_module |-> handler_module(1), handler_function |-> "handle",
                   stop_after_match |-> TRUE]
      [] r = 2 -> [name |-> "FIRC",
                   handler_module |-> handler_module(2), handler_function |-> "handle",
                   stop_after_match |-> TRUE]
      [] r = 3 -> [name |-> "FIRC",
                   handler_module |-> handler_module(3), handler_function |-> "handle",
                   stop_after_match |-> TRUE, pdf_password |-> "21893044"]

append_if_none_yet(ok, r, ms) == IF ok /\ ms = <<>> THEN <<r>> ELSE ms

\* "if ...: matches.append({...})"
append_if(ok, r, ms) == IF ok THEN Append(ms, r) ELSE ms

\* categorize on the text of a message: the dicts of the rules that matched,
\* in the order of their appends
categorize_text(ctx) ==
    LET rs == append_if(rule_ok(3, ctx), 3,
                  append_if(rule_ok(2, ctx), 2,
                      append_if(rule_ok(1, ctx), 1, <<>>)))
    IN  [n \in 1..Len(rs) |-> match_of(rs[n])]

\* ---- inputs
RECURSIVE lines_of(_)
lines_of(needles) ==
    IF needles = <<>> THEN <<>>
    ELSE Head(needles) \o <<Low("\n")>> \o lines_of(Tail(needles))

Subjects ==
    {subject_needle(1),
     <<Cap("fwd:"), SP>> \o subject_needle(2),
     subject_needle(3) \o <<SP, Low("12345")>>,
     subject_needle(1) \o <<SP>> \o subject_needle(2) \o <<SP>> \o subject_needle(3),
     Phrase(<<Cap("disposal"), Cap("required")>>)}

Bodies ==
    {lines_of(body_needles(1)),
     <<Cap("dear"), SP, Cap("sir,"), Low("\n")>> \o lines_of(body_needles(2)),
     lines_of(body_needles(3)),
     lines_of(body_needles(1) \o body_needles(2) \o body_needles(3)),
     lines_of(SubSeq(body_needles(1), 1, 4))}

AttachmentLists ==
    {<<>>,
     << <<Cap("firc"), Low("_1"), Low("."), Cap("pdf")>> >>,
     << <<Low("advice"), Low("."), Low("pdf")>> >>,
     << <<Low("firc"), Low("."), Low("txt")>>, <<Low("note"), Low("."), Low("txt")>> >>}

\* ---- respellings of a text: other letter case, other whitespace inside
\* and around
Respellings ==
    {[case |-> c, run |-> r, pad |-> p] :
        c \in {"same", "upper", "lower"},
        r \in {<<SP>>, <<Low("\n")>>, <<Low("\t"), SP>>, <<SP, Low("\n"), SP>>},
        p \in {<<>>, <<Low("\n")>>}}

\* every whitespace character of s written as the run
RECURSIVE respace(_, _)
respace(s, run) ==
    IF Len(s) = 0 THEN <<>>
    ELSE IF Len(s) = 1 THEN (IF IsSpace(s[1]) THEN run ELSE s)
    ELSE LET h == Len(s) \div 2
         IN  respace(SubSeq(s, 1, h), run) \o respace(SubSeq(s, h + 1, Len(s)), run)

respell(s, how) ==
    LET recased == [n \in 1..Len(s) |->
                       IF how.case = "same" \/ IsSpace(s[n]) THEN s[n]
                       ELSE [s[n] EXCEPT !.caps = (how.case = "upper")]]
    IN  how.pad \o respace(recased, how.run) \o how.pad

\* categorize is called on a message, and on the same message respelled
Categorize ==
    /\ c_in = [op |-> "none"]
    /\ \E subj \in Subjects, body \in Bodies, atts \in AttachmentLists,
          how \in Respellings :
        LET ctx == [Subject |-> subj, Body |-> body, Attachments |-> atts]
            other == [Subject |-> respell(subj, how), Body |-> respell(body, how),
                      Attachments |-> atts]
        IN  /\ c_in' = [ctx |-> ctx, respelled |-> other, how |-> how]
            /\ c_out' = [matches |-> categorize_text(ctx),
                         respelled |-> categorize_text(other)]
    /\ UNCHANGED <<runner_vars, store_vars, extract_vars, decrypt_vars, window_vars>>

ClassifySpec == StoreInit /\ [][Categorize]_vars

----------------------------------------------------------------------------
(* Claims on the classifier (ClassifySpec) *)

Classified == c_in # [op |-> "none"]

MatchNames(ms) == [n \in 1..Len(ms) |-> ms[n].name]

RECURSIVE Satisfied(_)
Satisfied(r) ==
    IF r > 3 THEN <<>>
    ELSE (IF rule_ok(r, c_in.ctx) THEN <<match_of(r).name>> ELSE <<>>) \o Satisfied(r + 1)

\* C24: the output of categorize holds one result for each rule whose own
\* predicate holds on the message, no other result, in declaration order.
C24_RulesIndependent ==
    Classified =>
        /\ MatchNames(c_out.matches) = Satisfied(1)
        /\ \A r \in Rules :
               rule_ok(r, c_in.ctx) <=>
                   \E n \in 1..Len(c_out.matches) : c_out.matches[n] = match_of(r)

\* a message that satisfies all three rules
C24_Witness ==
    /\ Classified
    /\ Len(c_out.matches) = 3
    /\ c_out.matches[1].handler_module # c_out.matches[2].handler_module

----------------------------------------------------------------------------
(* First run and persistence of the poller, checked under Spec *)

\* C25: the first run starts with the watermark at NOW, saved before the
\* first poll; no message whose internalDate is at or before that time is
\* returned by a poll or handed to a handler, in this run or after a restart.
C25_NoHistoricalMessageDispatched ==
    /\ persisted.last_internal_ts >= StartTs
    /\ last_ts >= StartTs
    /\ \A k \in 1..Len(messages) : messages[k].internalDate > StartTs
    /\ handled # <<>> => Handled.internalDate > StartTs

\* the service listed a matching message dated at the start time while the
\* handler of a later message was invoked
C25_Witness ==
    /\ calls # <<>>
    /\ \E m \in upstream(inbox, poll_ts) :
         /\ m.internalDate <= StartTs
         /\ m.sat # {}
         /\ m.id \notin processed

\* a poll cycle that returned a message ended without an exception
SavedCycle == pc = "sleep" /\ ~cycle_error /\ messages # <<>>

\* state.json changes only in the step that ends a non-empty cycle
SavedOnlyAfterMessages ==
    persisted' # persisted => (pc = "for" /\ pc' = "sleep" /\ messages # <<>>)

\* C26 as stated: after a cycle that returned a message and raised nothing
\* state.json holds the in-memory watermark and the in-memory processed ids;
\* a cycle that returned no message leaves state.json as it was.
C26_PersistedHoldsMemory ==
    /\ [](SavedCycle => /\ persisted.last_internal_ts = last_ts
                        /\ persisted.processed_ids = processed)
    /\ [][SavedOnlyAfterMessages]_vars

\* C26 amended: after such a cycle state.json holds the in-memory watermark
\* and the processed ids save_state keeps: all of them up to KeepIds, else
\* KeepIds of them; a cycle that returned no message leaves it as it was.
C26_PersistedAfterNonEmptyCycle ==
    /\ [](SavedCycle =>
            /\ persisted.last_internal_ts = last_ts
            /\ persisted.processed_ids \subseteq processed
            /\ Cardinality(persisted.processed_ids)
                   = MinOf({KeepIds, Cardinality(processed)}))
    /\ [][SavedOnlyAfterMessages]_vars

\* a saved cycle with more processed ids than the save keeps, the watermark
\* moved
C26_Witness ==
    /\ SavedCycle
    /\ Cardinality(processed) > KeepIds
    /\ persisted.last_internal_ts > StartTs

----------------------------------------------------------------------------
(* Acceptance of an extraction answer, checked under StoreSpec *)

\* the values the last run's extraction answers hold in their fields
AnsweredValues ==
    IF last.op = "disposal"
    THEN {last.result.FinancialFields[k] : k \in DOMAIN last.result.FinancialFields}
    ELSE UNION {{last.pdfs[n].Fields[k] : k \in DOMAIN last.pdfs[n].Fields} :
                   n \in 1..Len(last.pdfs)}

\* the last run's answers were all marked not relevant
NoneRelevant ==
    IF last.op = "disposal" THEN ~last.result.IsRelevant
    ELSE \A n \in 1..Len(last.pdfs) : ~last.pdfs[n].IsRelevant

\* an answer without its Confidence
Unscored(r) == [k \in DOMAIN r \ {"Confidence"} |-> r[k]]

\* what the last run makes of the same answers without their scores
UnscoredStore ==
    IF last.op = "disposal" THEN disposal_merge(last.pre, Unscored(last.result))
    ELSE firc_merge(last.pre, [n \in 1..Len(last.pdfs) |-> Unscored(last.pdfs[n])],
                    last.drive)

\* a handler ran and its extraction call returned
Answered ==
    \/ last.op = "disposal" /\ ~last.raised
    \/ last.op = "firc" /\ \A n \in 1..Len(last.pdfs) : ~raises(last.pdfs[n])

\* no cell the run wrote or added holds a value of the answers
NoAnswerWritten ==
    \A n \in 1..Len(store.rows) : \A c \in store.cols :
        store.rows[n][c] \in AnsweredValues =>
            (n <= Len(last.pre.rows) /\ PreCell(n, c) = store.rows[n][c])

\* C27, first part: when the answer is marked not relevant no value of its
\* fields is written to the table by either handler.
IrrelevantAnswerNotWritten ==
    (Answered /\ NoneRelevant) => NoAnswerWritten

\* C27: an answer marked not relevant writes none of its field values, and
\* the table after a run is the one the same answers give without their
\* confidence score.
C27_RelevanceGatesConfidenceDoesNot ==
    /\ IrrelevantAnswerNotWritten
    /\ Answered => store = UnscoredStore

----------------------------------------------------------------------------
(* The columns of the table, checked under StoreSpec *)

\* the canonical field lists of the two handlers, the key columns, the email
\* metadata and the record of the saved files
Schema ==
    FINANCIAL_CANON \cup FIRC_CANON
        \cup {"RemitterPK", "InwardPK", "EMAIL_Type", "SavedPDFs"}

\* C28: every column of the table belongs to the schema; a field name the
\* extraction service returns outside it is not written.
C28_ColumnsWithinSchema ==
    store.cols \subseteq Schema

----------------------------------------------------------------------------
(* The text sent by each attempt, checked under RetrySpec *)

\* floor(len * factor) for the k-th attempt, in exact arithmetic
ExactShare(k) == (txt_len * factor(k - 1)) \div 100

\* the lengths sent never increase and stay within max_chars
ShrinksWithinMax ==
    /\ \A k \in 1..Len(service_calls) :
           service_calls[k] <= txt_len /\ txt_len <= max_chars
    /\ \A a, b \in 1..Len(service_calls) : a < b => service_calls[a] >= service_calls[b]

\* C30 as stated: the k-th attempt sends the first floor(len * factor_k)
\* characters of the pre-trimmed text, factors 1.0, 0.6, 0.35 (0.25 beyond);
\* the length sent never increases and never exceeds the maximum.
C30_SentLengthIsExactFloor ==
    /\ \A k \in 1..Len(service_calls) : service_calls[k] = ExactShare(k)
    /\ ShrinksWithinMax

\* C30 amended: the k-th attempt sends int(len * factor_k) characters as the
\* double product gives it: floor(len * factor_k) for 1.0 and 0.6, and for
\* 0.35 that floor or, at some lengths where 0.35 * len is an integer, one
\* less; the length sent never increases and never exceeds the maximum.
C30_SentLengthShrinks ==
    /\ \A k \in 1..Len(service_calls) :
           /\ k <= 2 => service_calls[k] = ExactShare(k)
           /\ k = 3 => service_calls[k] \in {ExactShare(k), ExactShare(k) - 1}
           /\ service_calls[k] # ExactShare(k) => (txt_len * 35) % 100 = 0
           /\ service_calls[k] >= 0
    /\ ShrinksWithinMax

\* a text of 180 characters went through three attempts: 180, 108 and 62 sent
C30_Witness ==
    /\ Len(service_calls) = 3
    /\ txt_len = 180
    /\ service_calls = <<180, 108, 62>>

----------------------------------------------------------------------------
(* The backoff waits of an extraction call *)

\* C31: the wait after the rate-limited attempt n (counted from 1) is 2 * n
\* seconds, every wait follows a rate-limited attempt, and each wait lies
\* between two attempts: a call that is over, returned or raised, has slept
\* once less than it called the service.
C31_BackoffOnlyBetweenAttempts ==
    /\ Len(sleeps) <= Len(outcomes)
    /\ \A n \in 1..Len(sleeps) :
          /\ sleeps[n] = 2 * n
          /\ Transient(outcomes[n])
    /\ x_pc \in {"returned", "raised"} => Len(sleeps) = Len(service_calls) - 1

----------------------------------------------------------------------------
(* An upsert into a table that earlier runs have filled: UpdateSpec *)

\* the file after the merges ms of earlier runs, each an upsert_selected with
\* every column allowed, each written
RECURSIVE merged_file(_)
merged_file(ms) ==
    IF ms = <<>> THEN [cols |-> {}, rows |-> <<>>]
    ELSE write_read(upsert_selected(merged_file(SubSeq(ms, 1, Len(ms) - 1)),
                                    ms[Len(ms)].pk_col, ms[Len(ms)].updates, MergeCols))

\* remittance.xlsx as earlier runs left it: two rows with the same InwardPK
\* and no RemitterPK, the same with the first row given a RemitterPK later,
\* two rows with the same RemitterPK, one row with both keys, one without any
StoredTables ==
    LET inward == [pk_col |-> "RemitterPK",
                   updates |-> [RemitterPK |-> "", InwardPK |-> "K1", AmountFCY |-> "100"]]
        remitter(pk_col, amount) ==
                  [pk_col |-> pk_col,
                   updates |-> [RemitterPK |-> "K1", InwardPK |-> "", AmountFCY |-> amount]]
        both   == [pk_col |-> "InwardPK", updates |-> [RemitterPK |-> "K1", InwardPK |-> "K1"]]
        none   == [pk_col |-> "RemitterPK", updates |-> [RemitterPK |-> "", InwardPK |-> ""]]
    IN  {merged_file(<<inward, inward>>),
         merged_file(<<inward, inward, both>>),
         merged_file(<<remitter("RemitterPK", "100"), remitter("InwardPK", "200")>>),
         merged_file(<<both>>),
         merged_file(<<none>>)}

\* read_df finds the file of the earlier runs
LoadTable ==
    /\ merges = 0
    /\ last = [op |-> "none"]
    /\ merges' = merges + 1
    /\ store' \in StoredTables
    /\ UNCHANGED last
    /\ UNCHANGED <<runner_vars, extract_vars, decrypt_vars, classify_vars, window_vars>>

UpdateNext ==
    \/ LoadTable
    \/ UpsertSelected
    \/ UpsertByInward

UpdateSpec == StoreInit /\ [][UpdateNext]_vars

\* the rows of the table before the last upsert whose key cell is the key
Found ==
    {n \in 1..Len(last.pre.rows) :
        last.pk_col \in last.pre.cols /\ last.pre.rows[n][last.pk_col] = LastPk}

\* the update the last upsert wrote from
Written == IF last.op = "upsert_selected" THEN safe(last.updates, last.allowed_cols)
           ELSE last.updates

\* C32: an upsert with a non-empty key that finds rows with that key leaves
\* the number of rows as it was, leaves every row but the first of them as it
\* was, and in that first row sets the cells of the update's columns to the
\* update's values (a cell already holding the value stays) and leaves every
\* other column as it was.
C32_UpdatesFirstMatchingRowOnly ==
    (IsUpsert /\ LastPk # "" /\ Found # {}) =>
        /\ Len(last.out.rows) = Len(last.pre.rows)
        /\ \A n \in 1..Len(last.pre.rows) : \A c \in last.out.cols :
              last.out.rows[n][c] =
                  IF n = MinOf(Found) /\ c \in DOMAIN Written THEN Written[c]
                  ELSE PreCell(n, c)
        /\ store = last.out

\* the key was in two rows; the update changed a cell of the first, which
\* held a value in a column the update does not have, and the second row had
\* a cell that differs from the update
C32_Witness ==
    /\ IsUpsert
    /\ LastPk # ""
    /\ Cardinality(Found) >= 2
    /\ \E c \in DOMAIN Written : PreCell(MinOf(Found), c) # Written[c]
    /\ \E c \in last.pre.cols \ DOMAIN Written : PreCell(MinOf(Found), c) # ""
    /\ \E n \in Found \ {MinOf(Found)} : \E c \in DOMAIN Written :
          PreCell(n, c) # Written[c]

----------------------------------------------------------------------------
(* The pre-filter of the body handler: extract_financial_window             *)
(* (disposal_handler.py 132-152): WindowSpec. A text is its characters.     *)

\* "ctx_lines: int = 2"
ctx_lines == 2

\* the alternation of FINANCIAL_HINTS, cut to two of its keywords; each
\* stands between two \b
FINANCIAL_HINTS == {<<"u", "t", "r">>, <<"i", "r", "m">>}

\* pat.search(ln): a keyword stands in the line, in any letter case
\* (flags=re.I), with no word character (\w) right before or right after it
pat_search(ln) ==
    LET is_word_char(c) ==
            c \in {"u", "t", "r", "i", "m", "x", "o", "k", "U", "T", "R", "1"}
        ignore_case(c) ==
            CASE c = "U" -> "u" [] c = "T" -> "t" [] c = "R" -> "r" [] OTHER -> c
    IN  \E h \in FINANCIAL_HINTS : \E k \in 1..(Len(ln) - Len(h) + 1) :
            /\ \A m \in 1..Len(h) : ignore_case(ln[k + m - 1]) = h[m]
            /\ k = 1 \/ ~is_word_char(ln[k - 1])
            /\ k + Len(h) - 1 = Len(ln) \/ ~is_word_char(ln[k + Len(h)])

\* str.splitlines(): a line ends at "\n", "\r" or "\r\n"; the terminators are
\* dropped, and a text that ends with one has no empty line after it
RECURSIVE splitlines_from(_, _, _)
splitlines_from(text, k, ln) ==
    IF k > Len(text) THEN (IF ln = <<>> THEN <<>> ELSE <<ln>>)
    ELSE IF text[k] = "\r" /\ k < Len(text) /\ text[k + 1] = "\n"
         THEN <<ln>> \o splitlines_from(text, k + 2, <<>>)
    ELSE IF text[k] \in {"\n", "\r"}
         THEN <<ln>> \o splitlines_from(text, k + 1, <<>>)
    ELSE splitlines_from(text, k + 1, Append(ln, text[k]))

splitlines(text) == splitlines_from(text, 1, <<>>)

\* sep.join(lines)
RECURSIVE join_lines(_, _)
join_lines(sep, lines) ==
    IF lines = <<>> THEN <<>>
    ELSE IF Len(lines) = 1 THEN lines[1]
    ELSE lines[1] \o sep \o join_lines(sep, Tail(lines))

\* "for j in range(max(0, i-ctx_lines), min(len(lines), i+ctx_lines+1))":
\* q is in the range of p, both counted from 0
in_range_of_hit_only(q, p, n) == q = p

in_range(q, p, n) ==
    /\ q >= (IF p - ctx_lines > 0 THEN p - ctx_lines ELSE 0)
    /\ q < (IF n < p + ctx_lines + 1 THEN n ELSE p + ctx_lines + 1)

\* the text is never None and max_chars never negative here
extract_financial_window(text, maxc) ==
    LET lines == splitlines(text)
        keep == [q \in 1..Len(lines) |->
                    \E p \in 1..Len(lines) :
                        pat_search(lines[p]) /\ in_range(q - 1, p - 1, Len(lines))]
        kept == SelectSeq([q \in 1..Len(lines) |-> q], LAMBDA q : keep[q])
        joined == join_lines(<<"\n">>, [m \in 1..Len(kept) |-> lines[kept[m]]])
        filtered == IF joined # <<>> THEN joined ELSE text
    IN  SubSeq(filtered, 1, IF maxc < Len(filtered) THEN maxc ELSE Len(filtered))

\* ---- the bodies tried: up to 4 lines, each with a keyword, with a keyword
\* inside a longer word, without one, or empty; and 7 lines with a keyword in
\* one of them
BodyLineLists ==
    LET utr == <<"U", "T", "R", " ", "1">>
        xutr == <<"x", "u", "t", "r">>
        ok == <<"o", "k">>
    IN  UNION {[1..n -> {utr, <<"i", "r", "m", ":">>, xutr, ok, <<>>}] : n \in 0..4}
            \cup {[k \in 1..7 |-> IF k = h THEN utr ELSE IF k % 2 = 0 THEN ok ELSE xutr]
                     : h \in 1..7}

\* the pre-filter is applied to a body
ExtractWindow ==
    /\ w_in = [op |-> "none"]
    /\ \E ls \in BodyLineLists, sep \in {<<"\n">>, <<"\r", "\n">>}, last_sep \in BOOLEAN,
          maxc \in {4, 12, 8000} :
        LET text == join_lines(sep, ls) \o (IF last_sep /\ ls # <<>> THEN sep ELSE <<>>)
        IN  /\ w_in' = [text |-> text, max_chars |-> maxc]
            /\ w_out' = extract_financial_window(text, maxc)
    /\ UNCHANGED <<runner_vars, store_vars, extract_vars, decrypt_vars, classify_vars>>

WindowSpec == StoreInit /\ [][ExtractWindow]_vars

Windowed == w_in # [op |-> "none"]

\* the lines of ls whose position is in S, in their order
RECURSIVE lines_at(_, _)
lines_at(ls, S) ==
    IF ls = <<>> THEN <<>>
    ELSE lines_at(SubSeq(ls, 1, Len(ls) - 1), S)
            \o (IF Len(ls) \in S THEN <<ls[Len(ls)]>> ELSE <<>>)

\* the positions of the lines that match a keyword pattern
Hits == {p \in 1..Len(splitlines(w_in.text)) : pat_search(splitlines(w_in.text)[p])}

\* C33: the text returned is the first max_chars characters of: the lines at
\* most 2 lines away from a line that matches a keyword pattern, in their
\* order and one to a line, or the whole text if no line matches.
C33_WindowOfTwoOrFullText ==
    Windowed =>
        LET lines == splitlines(w_in.text)
            Near == {q \in 1..Len(lines) : \E p \in Hits : q - p \in (0 - 2)..2}
            whole == IF Hits = {} THEN w_in.text
                     ELSE join_lines(<<"\n">>, lines_at(lines, Near))
        IN  /\ Len(w_out) <= w_in.max_chars
            /\ Len(w_out) <= Len(whole)
            /\ w_out = SubSeq(whole, 1, Len(w_out))
            /\ Len(w_out) = w_in.max_chars \/ w_out = whole

\* the fourth of seven lines matched: the first and the last line were left
\* out and nothing was cut
C33_Witness ==
    /\ Windowed
    /\ Len(splitlines(w_in.text)) = 7
    /\ Hits = {4}
    /\ w_out = join_lines(<<"\n">>, SubSeq(splitlines(w_in.text), 2, 6))
    /\ Len(w_out) < w_in.max_chars

----------------------------------------------------------------------------
(* The key cells of a row the body handler updates *)

\* C34: a run of the body handler leaves a value in every RemitterPK and
\* InwardPK cell that held one before the run.
C34_StoredKeysKept ==
    last.op = "disposal" =>
        \A n \in 1..Len(last.pre.rows) : \A c \in {"RemitterPK", "InwardPK"} :
            PreCell(n, c) # "" => store.rows[n][c] # ""

----------------------------------------------------------------------------
(* Liveness of the poll loop: FairSpec *)

\* main() runs "while True" without blocking: each step of the loop that can
\* be taken is taken in the end. The listing, the reading of a message and the
\* saving of the state raise at most MaxFaults times, after which every
\* listing succeeds.
FairSpec ==
    /\ Spec
    /\ WF_vars(Poll)
    /\ WF_vars(BeginMessage)
    /\ WF_vars(Dispatch)
    /\ WF_vars(Mark)
    /\ WF_vars(EndBatch)
    /\ WF_vars(Sleep)

\* C35: every message that is in the inbox is marked processed at some later
\* time, whatever its internalDate.
C35_EveryMessageEventuallyProcessed ==
    \A id \in 1..MaxMsgs :
        [](id \in {m.id : m \in inbox} => <>(id \in processed))

====
